---------------------------- MODULE Spec2Model ----------------------------
(***************************************************************************)
(* A model of mom_baby_bot.py: the aiogram dispatcher's handlers over the  *)
(* per-user FSM storage, the active_timers and reminder_tasks registries,  *)
(* the three sqlite tables and the reminder tasks of the event loop.       *)
(*                                                                         *)
(* Text is a sequence of characters.  A keyboard label, a command or a     *)
(* timezone identifier is written as one symbol (a one-element sequence):  *)
(* none of them has surrounding whitespace or reaches a length limit, and  *)
(* the code only compares them for equality.                               *)
(*                                                                         *)
(* Time is whole seconds since 00:00 UTC of day 0.  A stored date is a day *)
(* number and a stored 'HH:MM' is a minute of the day.                     *)
(***************************************************************************)
EXTENDS Integers, Sequences, FiniteSets, TLC

VARIABLES
    now,            \* the wall clock: time.time(), datetime.now(timezone.utc)
    fsm_state,      \* MemoryStorage: user -> FSM state (None is no state)
    fsm_data,       \* MemoryStorage: user -> the data dict (key -> value)
    active_timers,  \* dict: user -> {'start', 'category', 'date'}
    reminder_tasks, \* dict: user -> the index in tasks of the user's asyncio.Task
    tasks,          \* every schedule_reminder task ever created, in creation order
    baby_logs,      \* table baby_logs, in id order (id = index)
    users,          \* table users: user_id -> the baby_name column of its row
    user_timezones, \* table user_timezones: user_id -> the timezone column
    pickers,        \* user -> the inline keyboards (calendar, category) on screen
    last            \* the step just taken: handler, user, text and answer

vars == << now, fsm_state, fsm_data, active_timers, reminder_tasks, tasks,
           baby_logs, users, user_timezones, pickers, last >>

---------------------------------------------------------------------------
\* no FSM state
None == "None"

\* a dict or a table is a function whose domain is its keys
Put(d, k, v) == [x \in (DOMAIN d) \cup {k} |-> IF x = k THEN v ELSE d[x]]
Pop(d, k) == [x \in (DOMAIN d) \ {k} |-> d[x]]
\* dict.update: the keys of new over those of d
Update(d, new) ==
    [x \in (DOMAIN d) \cup (DOMAIN new) |-> IF x \in DOMAIN new THEN new[x] ELSE d[x]]
EmptyDict == <<>>

---------------------------------------------------------------------------
(* Texts *)

CMD_START == <<"/start">>
BTN_GV == <<"btn:GV">>
BTN_SLEEP == <<"btn:Son">>
BTN_FORMULA == <<"btn:Smes">>
BTN_STOP == <<"btn:Stop">>
BTN_REPORT == <<"btn:Otchet">>
BTN_STATS == <<"btn:Statistika">>
BTN_BY_DATE == <<"btn:Po date">>
BTN_BY_CATEGORY == <<"btn:Po kategorii">>
BTN_TODAY == <<"btn:Za segodnya">>
BTN_EXPORT == <<"btn:Eksport CSV">>
BTN_BACK == <<"btn:Nazad">>
BTN_YES == <<"btn:Da">>
BTN_NO == <<"btn:Net">>
BTN_TZ_MOSCOW == <<"btn:Moskva (UTC+3)">>
BTN_TZ_BATUMI == <<"btn:Batumi (UTC+4)">>
BTN_TZ_SAMARA == <<"btn:Samara (UTC+4)">>
BTN_TZ_YEKATERINBURG == <<"btn:Ekaterinburg (UTC+5)">>
BTN_TZ_LONDON == <<"btn:London (UTC+0)">>
BTN_TZ_BANGKOK == <<"btn:Bangkok (UTC+7)">>
BTN_TZ_OTHER == <<"btn:Drugoy poyas">>
BTN_TZ_SKIP == <<"btn:Propustit">>

TZ_MOSCOW == <<"Europe/Moscow">>
TZ_TBILISI == <<"Asia/Tbilisi">>
TZ_SAMARA == <<"Europe/Samara">>
TZ_YEKATERINBURG == <<"Asia/Yekaterinburg">>
TZ_LONDON == <<"Europe/London">>
TZ_BANGKOK == <<"Asia/Bangkok">>

\* get_baby_name's default
DEFAULT_BABY_NAME == <<"Malysh">>
\* a text column that holds NULL
NULL == <<"NULL">>

Whitespace == {" "}
Digits == {"0", "1", "2", "3", "4", "5", "6", "7", "8", "9"}

DigitValue(c) ==
    CASE c = "0" -> 0 [] c = "1" -> 1 [] c = "2" -> 2 [] c = "3" -> 3
      [] c = "4" -> 4 [] c = "5" -> 5 [] c = "6" -> 6 [] c = "7" -> 7
      [] c = "8" -> 8 [] c = "9" -> 9

\* str.strip()
RECURSIVE lstrip(_)
lstrip(s) == IF s # <<>> /\ Head(s) \in Whitespace THEN lstrip(Tail(s)) ELSE s

RECURSIVE rstrip(_)
rstrip(s) ==
    IF s # <<>> /\ s[Len(s)] \in Whitespace
    THEN rstrip(SubSeq(s, 1, Len(s) - 1))
    ELSE s

strip(s) == rstrip(lstrip(s))

\* a slice that loses one character more
Truncate_one_short(s, n) == IF Len(s) < n THEN s ELSE SubSeq(s, 1, n - 1)

\* s[:n]
Truncate(s, n) == IF Len(s) <= n THEN s ELSE SubSeq(s, 1, n)

\* the value of a run of decimal digits
RECURSIVE DigitsValue(_)
DigitsValue(s) ==
    IF s = <<>> THEN 0
    ELSE 10 * DigitsValue(SubSeq(s, 1, Len(s) - 1)) + DigitValue(s[Len(s)])

AllDigits(s) == s # <<>> /\ \A i \in 1..Len(s) : s[i] \in Digits

\* a number or nothing: <<n>> is the number n, <<>> is Python's None
Nothing == <<>>
Just(n) == <<n>>

\* int(text): an optional sign and decimal digits give Just(value); anything
\* else raises ValueError, which is Nothing here
ParseInt(s) ==
    IF s # <<>> /\ Head(s) \in {"+", "-"}
    THEN IF AllDigits(Tail(s))
         THEN Just(IF Head(s) = "-" THEN 0 - DigitsValue(Tail(s)) ELSE DigitsValue(Tail(s)))
         ELSE Nothing
    ELSE IF AllDigits(s) THEN Just(DigitsValue(s)) ELSE Nothing

---------------------------------------------------------------------------
(* SimpleTimezone and the clock *)

\* SimpleTimezone.TIMEZONES
TIMEZONES ==
    (TZ_MOSCOW :> 3) @@ (TZ_TBILISI :> 4) @@ (TZ_SAMARA :> 4)
    @@ (TZ_YEKATERINBURG :> 5) @@ (TZ_LONDON :> 0) @@ (TZ_BANGKOK :> 7)

\* SimpleTimezone.is_valid
is_valid(tz_name) == tz_name \in DOMAIN TIMEZONES

\* SimpleTimezone.__init__: TIMEZONES.get(name, 3)
offset_hours(name) == IF name \in DOMAIN TIMEZONES THEN TIMEZONES[name] ELSE 3

\* get_user_tz: the stored zone, MOSCOW_TZ when none is stored
get_user_tz(u) ==
    IF u \in DOMAIN user_timezones /\ user_timezones[u] # <<>>
    THEN user_timezones[u]
    ELSE TZ_MOSCOW

SecondsPerDay == 86400

\* the UTC offset of the zone the process runs in (date.today() is local to it)
ProcessOffsetHours == 0

\* date.today().isoformat() at instant t
Today(t) == (t + ProcessOffsetHours * 3600) \div SecondsPerDay

\* SimpleTimezone.get_current_time().strftime('%H:%M') at instant t
LocalHHMM(tz, t) == ((t + offset_hours(tz) * 3600) % SecondsPerDay) \div 60

\* the run starts at 23:57:30 UTC of day 0
StartOfRun == 86250

---------------------------------------------------------------------------
(* Tables and registries *)

GV == "GV"
SLEEP == "Son"
FORMULA == "Smes"
Categories == {GV, SLEEP, FORMULA}

\* category_map of start_activity
category_map(text) ==
    CASE text = BTN_GV -> GV
      [] text = BTN_SLEEP -> SLEEP
      [] text = BTN_FORMULA -> FORMULA

\* a filter of start_activity without the button of sleep
CategoryButtons_without_sleep == {BTN_GV, BTN_FORMULA}

\* F.text.in_([...]) of start_activity
CategoryButtons == {BTN_GV, BTN_SLEEP, BTN_FORMULA}

\* timezone_map with the first two identifiers exchanged
timezone_map_exchanged ==
    (BTN_TZ_MOSCOW :> TZ_TBILISI) @@ (BTN_TZ_BATUMI :> TZ_MOSCOW)
    @@ (BTN_TZ_SAMARA :> TZ_SAMARA) @@ (BTN_TZ_YEKATERINBURG :> TZ_YEKATERINBURG)
    @@ (BTN_TZ_LONDON :> TZ_LONDON) @@ (BTN_TZ_BANGKOK :> TZ_BANGKOK)
    @@ (BTN_TZ_SKIP :> TZ_MOSCOW)

\* timezone_map of handle_timezone_choice
timezone_map ==
    (BTN_TZ_MOSCOW :> TZ_MOSCOW) @@ (BTN_TZ_BATUMI :> TZ_TBILISI)
    @@ (BTN_TZ_SAMARA :> TZ_SAMARA) @@ (BTN_TZ_YEKATERINBURG :> TZ_YEKATERINBURG)
    @@ (BTN_TZ_LONDON :> TZ_LONDON) @@ (BTN_TZ_BANGKOK :> TZ_BANGKOK)
    @@ (BTN_TZ_SKIP :> TZ_MOSCOW)

\* a storage with one state and one data dict for all users
ClearState_of_everyone(u) ==
    /\ fsm_state' = [v \in DOMAIN fsm_state |-> None]
    /\ fsm_data' = [v \in DOMAIN fsm_data |-> EmptyDict]

\* a clear() without effect
ClearState_without_effect(u) == UNCHANGED << fsm_state, fsm_data >>

\* a clear() that resets the state and keeps the data
ClearState_keeps_data(u) ==
    /\ fsm_state' = [fsm_state EXCEPT ![u] = None]
    /\ fsm_data' = fsm_data

\* state.clear(): no state and an empty data dict
ClearState(u) ==
    /\ fsm_state' = [fsm_state EXCEPT ![u] = None]
    /\ fsm_data' = [fsm_data EXCEPT ![u] = EmptyDict]

\* get_baby_name: the column when the row exists and the name is not empty
get_baby_name(u) ==
    IF u \in DOMAIN users /\ users[u] # NULL /\ users[u] # <<>>
    THEN users[u]
    ELSE DEFAULT_BABY_NAME

\* log_user(user_id, username, first_name): INSERT OR REPLACE that keeps the
\* baby_name of the row, NULL on a new row
log_user(u) == IF u \in DOMAIN users THEN users ELSE Put(users, u, NULL)

\* update_baby_name: UPDATE ... WHERE user_id = ?, nothing without the row
update_baby_name(u, baby_name) ==
    IF u \in DOMAIN users THEN Put(users, u, baby_name) ELSE users

\* a save_user_tz without the is_valid test
save_user_tz_ok_for_any(tz_str) == TRUE

\* save_user_tz: False for an identifier that is not valid, else the upsert
save_user_tz_ok(tz_str) == is_valid(tz_str)
save_user_tz(u, tz_str) ==
    IF save_user_tz_ok(tz_str) THEN Put(user_timezones, u, tz_str) ELSE user_timezones

\* a row of baby_logs, its id is its index in the table; a column that holds
\* NULL (volume, description) is a key the row does not have
LogRow(u, category, duration, date, time_start) ==
    [ user_id |-> u, category |-> category, duration |-> duration,
      date |-> date, time_start |-> time_start ]

---------------------------------------------------------------------------
(* get_average_interval *)

\* WHERE user_id = ? AND category = ?
RECURSIVE SelectRows(_, _, _)
SelectRows(logs, u, category) ==
    IF logs = <<>> THEN <<>>
    ELSE LET rest == SelectRows(Tail(logs), u, category)
         IN  IF Head(logs).user_id = u /\ Head(logs).category = category
             THEN <<Head(logs)>> \o rest
             ELSE rest

\* the order of ORDER BY date DESC, time_start DESC: a comes no later than b
ComesFirst(a, b) ==
    \/ a.date > b.date
    \/ a.date = b.date /\ a.time_start >= b.time_start

RemoveAt(s, i) == SubSeq(s, 1, i - 1) \o SubSeq(s, i + 1, Len(s))

\* ORDER BY date DESC, time_start DESC
RECURSIVE OrderByDesc(_)
OrderByDesc(rows) ==
    IF rows = <<>> THEN <<>>
    ELSE LET i == CHOOSE k \in 1..Len(rows) :
                      /\ \A j \in 1..Len(rows) : ComesFirst(rows[k], rows[j])
                      /\ \A j \in 1..(k - 1) : ~ComesFirst(rows[j], rows[k])
         IN  <<rows[i]>> \o OrderByDesc(RemoveAt(rows, i))

\* LIMIT 10
QueryLimit == 10
Limit(rows, n) == IF Len(rows) <= n THEN rows ELSE SubSeq(rows, 1, n)

\* datetime.fromisoformat(f"{date} {time_start}"), in seconds
RowInstant(r) == r.date * SecondsPerDay + r.time_start * 60

Abs(x) == IF x < 0 THEN 0 - x ELSE x

RECURSIVE SumSeq(_)
SumSeq(s) == IF s = <<>> THEN 0 ELSE Head(s) + SumSeq(Tail(s))

\* the sum divided by len(records) instead of len(intervals)
MeanWholeSeconds_by_records(intervals) == SumSeq(intervals) \div (Len(intervals) + 1)

\* int(sum(intervals) / len(intervals)); the intervals are never negative
MeanWholeSeconds(intervals) == SumSeq(intervals) \div Len(intervals)

get_average_interval(logs, u, category) ==
    LET records == Limit(OrderByDesc(SelectRows(logs, u, category)), QueryLimit)
        intervals ==
            [ i \in 1..(Len(records) - 1) |->
                Abs(RowInstant(records[i]) - RowInstant(records[i + 1])) ]
    IN  IF Len(records) < 2 THEN Nothing ELSE Just(MeanWholeSeconds(intervals))

---------------------------------------------------------------------------
(* The dispatcher *)

\* BabyStates
BabyStates ==
    { "waiting_baby_name", "waiting_timezone_choice", "waiting_custom_timezone",
      "waiting_volume", "waiting_description_choice", "waiting_description_text",
      "waiting_reports_menu", "choosing_calendar_month", "choosing_category_report" }

\* The handler a text message reaches: the first one, in the order the
\* handlers are registered, whose filters (state, text) accept it.
Route(st, text) ==
    IF text = CMD_START THEN "start_handler"
    ELSE IF st = "waiting_baby_name" THEN "handle_baby_name"
    ELSE IF st = "waiting_timezone_choice" THEN "handle_timezone_choice"
    ELSE IF st = "waiting_custom_timezone" THEN "handle_custom_timezone"
    ELSE IF text \in CategoryButtons THEN "start_activity"
    ELSE IF text = BTN_STOP THEN "stop_activity"
    ELSE IF st = "waiting_volume" THEN "handle_volume"
    ELSE IF st = "waiting_description_choice" THEN "handle_description_choice"
    ELSE IF st = "waiting_description_text" THEN "save_description"
    ELSE IF text = BTN_REPORT THEN "show_reports_menu"
    ELSE IF st = "waiting_reports_menu" /\ text = BTN_TODAY THEN "report_today"
    ELSE IF st = "waiting_reports_menu" /\ text = BTN_BY_DATE THEN "ask_report_date"
    ELSE IF st = "waiting_reports_menu" /\ text = BTN_BY_CATEGORY THEN "ask_report_category"
    ELSE IF st = "waiting_reports_menu" /\ text = BTN_EXPORT THEN "export_csv"
    ELSE IF st = "waiting_reports_menu" /\ text = BTN_BACK THEN "back_to_main"
    ELSE IF text = BTN_STATS THEN "show_statistics"
    ELSE "fallback_handler"

\* the step just taken
Handled(h, u, text, answer) ==
    last' = [handler |-> h, user |-> u, text |-> text, answer |-> answer]

---------------------------------------------------------------------------
(* Onboarding *)

NAME_LIMIT == 50
NOTE_LIMIT == 500

start_handler(u, text) ==
    /\ Route(fsm_state[u], text) = "start_handler"
    /\ users' = log_user(u)
    /\ IF get_baby_name(u) = DEFAULT_BABY_NAME
       THEN /\ fsm_state' = [fsm_state EXCEPT ![u] = "waiting_baby_name"]
            /\ Handled("start_handler", u, text, "ask_baby_name")
       ELSE IF u \notin DOMAIN user_timezones
       THEN /\ fsm_state' = [fsm_state EXCEPT ![u] = "waiting_timezone_choice"]
            /\ Handled("start_handler", u, text, "ask_timezone")
       ELSE /\ fsm_state' = fsm_state
            /\ Handled("start_handler", u, text, "welcome_back")
    /\ UNCHANGED << now, fsm_data, active_timers, reminder_tasks, tasks,
                    baby_logs, user_timezones, pickers >>

handle_baby_name(u, text) ==
    /\ Route(fsm_state[u], text) = "handle_baby_name"
    /\ users' = update_baby_name(u, Truncate(strip(text), NAME_LIMIT))
    /\ fsm_state' = [fsm_state EXCEPT ![u] = "waiting_timezone_choice"]
    /\ Handled("handle_baby_name", u, text, "ask_timezone")
    /\ UNCHANGED << now, fsm_data, active_timers, reminder_tasks, tasks,
                    baby_logs, user_timezones, pickers >>

handle_timezone_choice(u, text) ==
    /\ Route(fsm_state[u], text) = "handle_timezone_choice"
    /\ IF strip(text) \in DOMAIN timezone_map
       THEN /\ user_timezones' = save_user_tz(u, timezone_map[strip(text)])
            /\ ClearState(u)
            /\ Handled("handle_timezone_choice", u, text, "ready")
       ELSE IF strip(text) = BTN_TZ_OTHER
       THEN /\ fsm_state' = [fsm_state EXCEPT ![u] = "waiting_custom_timezone"]
            /\ Handled("handle_timezone_choice", u, text, "ask_custom_timezone")
            /\ UNCHANGED << user_timezones, fsm_data >>
       ELSE /\ Handled("handle_timezone_choice", u, text, "choose_from_options")
            /\ UNCHANGED << user_timezones, fsm_state, fsm_data >>
    /\ UNCHANGED << now, active_timers, reminder_tasks, tasks, baby_logs,
                    users, pickers >>

handle_custom_timezone(u, text) ==
    /\ Route(fsm_state[u], text) = "handle_custom_timezone"
    /\ user_timezones' = save_user_tz(u, strip(text))
    /\ IF save_user_tz_ok(strip(text))
       THEN /\ ClearState(u)
            /\ Handled("handle_custom_timezone", u, text, "timezone_set")
       ELSE /\ Handled("handle_custom_timezone", u, text, "InvalidTimezone")
            /\ UNCHANGED << fsm_state, fsm_data >>
    /\ UNCHANGED << now, active_timers, reminder_tasks, tasks, baby_logs,
                    users, pickers >>

---------------------------------------------------------------------------
(* Reminders *)

\* the least interval a reminder is planned for
MIN_INTERVAL == 300

\* plan_reminder with avg_interval >= 300
should_remind_from_floor(avg_interval) ==
    /\ avg_interval # Nothing
    /\ avg_interval[1] >= 300

\* avg_interval and avg_interval > 300
should_remind(avg_interval) ==
    /\ avg_interval # Nothing
    /\ avg_interval[1] # 0
    /\ avg_interval[1] > MIN_INTERVAL

\* where a schedule_reminder task is: in asyncio.sleep, in bot.send_message,
\* or over (the message sent, the send failed, or cancelled in either await);
\* the field "out" of a task tells that its request has left for Telegram
Pending == {"sleeping", "sending"}
Cancelled == {"cancelled_sleeping", "cancelled_sending"}

\* Task.cancel(): CancelledError is thrown into the task where it waits (the
\* sleep or the send) and schedule_reminder swallows it; a task that is over
\* is left as it is
Cancel(ts, i) ==
    [ts EXCEPT ![i].pc =
        IF @ = "sleeping" THEN "cancelled_sleeping"
        ELSE IF @ = "sending" THEN "cancelled_sending"
        ELSE @]

\* plan_reminder without the cancel() of the task in the registry
cancel_previous_forgotten(u) == tasks

\* if user_id in reminder_tasks: reminder_tasks[user_id].cancel()
cancel_previous(u) ==
    IF u \in DOMAIN reminder_tasks THEN Cancel(tasks, reminder_tasks[u]) ELSE tasks

\* plan_reminder keeping the first task of a user in the registry
register_task_keeps_first(u, i) ==
    IF u \in DOMAIN reminder_tasks THEN reminder_tasks ELSE Put(reminder_tasks, u, i)

\* reminder_tasks[user_id] = <the new task>
register_task(u, i) == Put(reminder_tasks, u, i)

\* a reminder that always names the breast feeding
NewTask_for_breast(u, category, interval) ==
    [ user |-> u, category |-> GV, interval |-> interval,
      due |-> now + interval, pc |-> "sleeping", out |-> FALSE ]

\* asyncio.create_task(schedule_reminder(user_id, category, interval))
NewTask(u, category, interval) ==
    [ user |-> u, category |-> category, interval |-> interval,
      due |-> now + interval, pc |-> "sleeping", out |-> FALSE ]

\* "Planiruem napominanie" of stop_activity, and the same lines of handle_volume
plan_reminder(u, category, logs) ==
    LET avg_interval == get_average_interval(logs, u, category)
    IN  IF should_remind(avg_interval)
        THEN /\ tasks' = Append(cancel_previous(u), NewTask(u, category, avg_interval[1]))
             /\ reminder_tasks' = register_task(u, Len(tasks) + 1)
        ELSE UNCHANGED << tasks, reminder_tasks >>

\* schedule_reminder: asyncio.sleep(interval) is over
reminder_wakes(i) ==
    /\ i \in DOMAIN tasks
    /\ tasks[i].pc = "sleeping"
    /\ now >= tasks[i].due
    /\ tasks' = [tasks EXCEPT ![i].pc = "sending"]
    /\ Handled("schedule_reminder", tasks[i].user, <<>>, "sending")
    /\ UNCHANGED << now, fsm_state, fsm_data, active_timers, reminder_tasks,
                    baby_logs, users, user_timezones, pickers >>

\* schedule_reminder: inside bot.send_message the request is written, the
\* notification is out
reminder_requests(i) ==
    /\ i \in DOMAIN tasks
    /\ tasks[i].pc = "sending"
    /\ ~tasks[i].out
    /\ tasks' = [tasks EXCEPT ![i].out = TRUE]
    /\ Handled("schedule_reminder", tasks[i].user, <<>>, "requested")
    /\ UNCHANGED << now, fsm_state, fsm_data, active_timers, reminder_tasks,
                    baby_logs, users, user_timezones, pickers >>

\* schedule_reminder: bot.send_message returns
reminder_sent(i) ==
    /\ i \in DOMAIN tasks
    /\ tasks[i].pc = "sending"
    /\ tasks[i].out
    /\ tasks' = [tasks EXCEPT ![i].pc = "done"]
    /\ Handled("schedule_reminder", tasks[i].user, <<>>, "sent")
    /\ UNCHANGED << now, fsm_state, fsm_data, active_timers, reminder_tasks,
                    baby_logs, users, user_timezones, pickers >>

\* schedule_reminder sleeping again after a send that raised
reminder_send_fails_and_retries(i) ==
    /\ i \in DOMAIN tasks
    /\ tasks[i].pc = "sending"
    /\ tasks' = [tasks EXCEPT ![i].pc = "sleeping"]
    /\ Handled("schedule_reminder", tasks[i].user, <<>>, "send_failed")
    /\ UNCHANGED << now, fsm_state, fsm_data, active_timers, reminder_tasks,
                    baby_logs, users, user_timezones, pickers >>

\* schedule_reminder: bot.send_message raises, the error is printed
reminder_send_fails(i) ==
    /\ i \in DOMAIN tasks
    /\ tasks[i].pc = "sending"
    /\ tasks' = [tasks EXCEPT ![i].pc = "failed"]
    /\ Handled("schedule_reminder", tasks[i].user, <<>>, "send_failed")
    /\ UNCHANGED << now, fsm_state, fsm_data, active_timers, reminder_tasks,
                    baby_logs, users, user_timezones, pickers >>

---------------------------------------------------------------------------
(* Start and stop of an activity *)

\* start_activity refusing only a second timer of the same category
start_blocked_same_category(u, category) ==
    u \in DOMAIN active_timers /\ active_timers[u].category = category

\* if user_id in active_timers
start_blocked(u, category) == u \in DOMAIN active_timers

start_activity(u, text) ==
    /\ Route(fsm_state[u], text) = "start_activity"
    /\ IF start_blocked(u, category_map(text))
       THEN /\ Handled("start_activity", u, text, "AlreadyRunning")
            /\ UNCHANGED active_timers
       ELSE /\ active_timers' =
                Put(active_timers, u,
                    [ start |-> now, category |-> category_map(text),
                      date |-> Today(now) ])
            /\ Handled("start_activity", u, text, "started")
    /\ UNCHANGED << now, fsm_state, fsm_data, reminder_tasks, tasks, baby_logs,
                    users, user_timezones, pickers >>

\* int(time.time() - start_time)
Elapsed(start_time, t) == t - start_time

\* stop_activity clearing the session when there is no timer
stop_without_timer_clears(u, text) ==
    /\ Handled("stop_activity", u, text, "NoActiveTimer")
    /\ ClearState(u)
    /\ UNCHANGED << active_timers, reminder_tasks, tasks, baby_logs >>

\* stop_activity when user_id is not in active_timers
stop_without_timer(u, text) ==
    /\ Handled("stop_activity", u, text, "NoActiveTimer")
    /\ UNCHANGED << fsm_state, fsm_data, active_timers, reminder_tasks, tasks,
                    baby_logs >>

\* stop_activity dating the row at the stop
stopped_row_dated_at_stop(u, timer_data, elapsed, timestart_str) ==
    LogRow(u, timer_data.category, elapsed, Today(now), timestart_str)

\* the row stop_activity inserts: NULL volume, NULL description
stopped_row(u, timer_data, elapsed, timestart_str) ==
    LogRow(u, timer_data.category, elapsed, timer_data.date, timestart_str)

\* stop_activity keeping the breast feeding as the category of the stop
stopped_formula_data_as_breast(timer_data, elapsed, timestart_str) ==
    [ last_category |-> GV, last_elapsed |-> elapsed,
      last_start |-> timestart_str, last_date |-> timer_data.date ]

\* the data stop_activity keeps for handle_volume
stopped_formula_data(timer_data, elapsed, timestart_str) ==
    [ last_category |-> timer_data.category, last_elapsed |-> elapsed,
      last_start |-> timestart_str, last_date |-> timer_data.date ]

stop_activity(u, text) ==
    /\ Route(fsm_state[u], text) = "stop_activity"
    /\ IF u \notin DOMAIN active_timers
       THEN stop_without_timer(u, text)
       ELSE LET timer_data == active_timers[u]
                elapsed == Elapsed(timer_data.start, now)
                timestart_str == LocalHHMM(get_user_tz(u), now)
            IN  /\ active_timers' = Pop(active_timers, u)
                /\ IF timer_data.category = FORMULA
                   THEN /\ fsm_data' = [fsm_data EXCEPT ![u] =
                                Update(@, stopped_formula_data(timer_data, elapsed, timestart_str))]
                        /\ fsm_state' = [fsm_state EXCEPT ![u] = "waiting_volume"]
                        /\ Handled("stop_activity", u, text, "ask_volume")
                        /\ UNCHANGED << reminder_tasks, tasks, baby_logs >>
                   ELSE /\ baby_logs' = Append(baby_logs,
                                stopped_row(u, timer_data, elapsed, timestart_str))
                        /\ plan_reminder(u, timer_data.category, baby_logs')
                        /\ fsm_data' = [fsm_data EXCEPT ![u] =
                                Update(@, [last_task_id |-> Len(baby_logs')])]
                        /\ fsm_state' = [fsm_state EXCEPT ![u] = "waiting_description_choice"]
                        /\ Handled("stop_activity", u, text, "finished")
    /\ UNCHANGED << now, users, user_timezones, pickers >>

MAX_VOLUME == 500

\* handle_volume refusing only volume < 0
volume_out_of_range_below_zero(volume) == volume < 0 \/ volume > MAX_VOLUME

\* if volume <= 0 or volume > 500 (the input is refused)
volume_out_of_range(volume) == volume <= 0 \/ volume > MAX_VOLUME

\* handle_volume inserting NULL as the volume
volume_row_without_volume(u, data, volume) ==
    LogRow(u, data.last_category, data.last_elapsed, data.last_date, data.last_start)

\* handle_volume binding the volume and the duration to each other's column
volume_row_swapped(u, data, volume) ==
    Put(LogRow(u, data.last_category, volume, data.last_date, data.last_start),
        "volume", data.last_elapsed)

\* the row handle_volume inserts from the data of the FSM context
volume_row(u, data, volume) ==
    Put(LogRow(u, data.last_category, data.last_elapsed, data.last_date,
               data.last_start),
        "volume", volume)

handle_volume(u, text) ==
    /\ Route(fsm_state[u], text) = "handle_volume"
    /\ LET parsed == ParseInt(strip(text))
       IN  IF parsed = Nothing
           THEN /\ Handled("handle_volume", u, text, "not_a_number")
                /\ UNCHANGED << fsm_state, fsm_data, reminder_tasks, tasks, baby_logs >>
           ELSE IF volume_out_of_range(parsed[1])
           THEN /\ Handled("handle_volume", u, text, "InvalidVolume")
                /\ UNCHANGED << fsm_state, fsm_data, reminder_tasks, tasks, baby_logs >>
           ELSE /\ baby_logs' = Append(baby_logs, volume_row(u, fsm_data[u], parsed[1]))
                /\ plan_reminder(u, fsm_data[u].last_category, baby_logs')
                /\ fsm_data' = [fsm_data EXCEPT ![u] =
                        Update(@, [last_task_id |-> Len(baby_logs')])]
                /\ fsm_state' = [fsm_state EXCEPT ![u] = "waiting_description_choice"]
                /\ Handled("handle_volume", u, text, "finished")
    /\ UNCHANGED << now, active_timers, users, user_timezones, pickers >>

handle_description_choice(u, text) ==
    /\ Route(fsm_state[u], text) = "handle_description_choice"
    /\ IF strip(text) = BTN_NO
       THEN /\ ClearState(u)
            /\ Handled("handle_description_choice", u, text, "done")
       ELSE IF strip(text) = BTN_YES
       THEN /\ fsm_state' = [fsm_state EXCEPT ![u] = "waiting_description_text"]
            /\ Handled("handle_description_choice", u, text, "ask_note")
            /\ UNCHANGED fsm_data
       ELSE /\ Handled("handle_description_choice", u, text, "choose_yes_or_no")
            /\ UNCHANGED << fsm_state, fsm_data >>
    /\ UNCHANGED << now, active_timers, reminder_tasks, tasks, baby_logs,
                    users, user_timezones, pickers >>

\* an UPDATE of the description of the newest row of the table
update_description_of_newest_row(logs, task_id, u, description) ==
    IF logs = <<>> THEN logs
    ELSE [logs EXCEPT ![Len(logs)] = Put(@, "description", description)]

\* an UPDATE of the description without the WHERE clause
update_description_of_every_row(logs, task_id, u, description) ==
    [i \in 1..Len(logs) |-> Put(logs[i], "description", description)]

\* UPDATE baby_logs SET description = ? WHERE id = ? AND user_id = ?
update_description(logs, task_id, u, description) ==
    IF task_id \in 1..Len(logs) /\ logs[task_id].user_id = u
    THEN [logs EXCEPT ![task_id] = Put(@, "description", description)]
    ELSE logs

save_description(u, text) ==
    /\ Route(fsm_state[u], text) = "save_description"
    /\ IF "last_task_id" \notin DOMAIN fsm_data[u]
       THEN /\ Handled("save_description", u, text, "MissingBagContext")
            /\ UNCHANGED baby_logs
       ELSE /\ baby_logs' = update_description(baby_logs, fsm_data[u].last_task_id, u,
                                Truncate(strip(text), NOTE_LIMIT))
            /\ Handled("save_description", u, text, "note_saved")
    /\ ClearState(u)
    /\ UNCHANGED << now, active_timers, reminder_tasks, tasks, users,
                    user_timezones, pickers >>

---------------------------------------------------------------------------
(* Reports and statistics *)

\* SELECT ... FROM baby_logs WHERE user_id = ?: has the user any row
HasRows(u) == \E i \in 1..Len(baby_logs) : baby_logs[i].user_id = u

\* a reports menu that drops the running timer
show_reports_menu_dropping_timer(u, text) ==
    /\ Route(fsm_state[u], text) = "show_reports_menu"
    /\ fsm_state' = [fsm_state EXCEPT ![u] = "waiting_reports_menu"]
    /\ active_timers' = Pop(active_timers, u)
    /\ Handled("show_reports_menu", u, text, "reports_menu")
    /\ UNCHANGED << now, fsm_data, reminder_tasks, tasks, baby_logs, users,
                    user_timezones, pickers >>

show_reports_menu(u, text) ==
    /\ Route(fsm_state[u], text) = "show_reports_menu"
    /\ fsm_state' = [fsm_state EXCEPT ![u] = "waiting_reports_menu"]
    /\ Handled("show_reports_menu", u, text, "reports_menu")
    /\ UNCHANGED << now, fsm_data, active_timers, reminder_tasks, tasks,
                    baby_logs, users, user_timezones, pickers >>

report_today(u, text) ==
    /\ Route(fsm_state[u], text) = "report_today"
    /\ ClearState(u)
    /\ Handled("report_today", u, text, "report")
    /\ UNCHANGED << now, active_timers, reminder_tasks, tasks, baby_logs,
                    users, user_timezones, pickers >>

ask_report_date(u, text) ==
    /\ Route(fsm_state[u], text) = "ask_report_date"
    /\ fsm_state' = [fsm_state EXCEPT ![u] = "choosing_calendar_month"]
    /\ pickers' = [pickers EXCEPT ![u] = @ \cup {"calendar"}]
    /\ Handled("ask_report_date", u, text, "calendar")
    /\ UNCHANGED << now, fsm_data, active_timers, reminder_tasks, tasks,
                    baby_logs, users, user_timezones >>

ask_report_category(u, text) ==
    /\ Route(fsm_state[u], text) = "ask_report_category"
    /\ IF ~HasRows(u)
       THEN /\ Handled("ask_report_category", u, text, "EmptyResultSet")
            /\ UNCHANGED << fsm_state, pickers >>
       ELSE /\ fsm_state' = [fsm_state EXCEPT ![u] = "choosing_category_report"]
            /\ pickers' = [pickers EXCEPT ![u] = @ \cup {"category"}]
            /\ Handled("ask_report_category", u, text, "categories")
    /\ UNCHANGED << now, fsm_data, active_timers, reminder_tasks, tasks,
                    baby_logs, users, user_timezones >>

export_csv(u, text) ==
    /\ Route(fsm_state[u], text) = "export_csv"
    /\ ClearState(u)
    /\ Handled("export_csv", u, text,
               IF HasRows(u) THEN "csv" ELSE "EmptyResultSet")
    /\ UNCHANGED << now, active_timers, reminder_tasks, tasks, baby_logs,
                    users, user_timezones, pickers >>

back_to_main(u, text) ==
    /\ Route(fsm_state[u], text) = "back_to_main"
    /\ ClearState(u)
    /\ Handled("back_to_main", u, text, "main_menu")
    /\ UNCHANGED << now, active_timers, reminder_tasks, tasks, baby_logs,
                    users, user_timezones, pickers >>

show_statistics(u, text) ==
    /\ Route(fsm_state[u], text) = "show_statistics"
    /\ Handled("show_statistics", u, text, "statistics")
    /\ UNCHANGED << now, fsm_state, fsm_data, active_timers, reminder_tasks,
                    tasks, baby_logs, users, user_timezones, pickers >>

fallback_handler(u, text) ==
    /\ Route(fsm_state[u], text) = "fallback_handler"
    /\ Handled("fallback_handler", u, text,
               IF u \in DOMAIN active_timers THEN "timer_active" ELSE "use_menu")
    /\ UNCHANGED << now, fsm_state, fsm_data, active_timers, reminder_tasks,
                    tasks, baby_logs, users, user_timezones, pickers >>

---------------------------------------------------------------------------
(* Callback queries of the inline keyboards *)

\* cal:<year>:<month>, the calendar shows another month
handle_calendar_nav(u) ==
    /\ "calendar" \in pickers[u]
    /\ Handled("handle_calendar_nav", u, <<>>, "calendar")
    /\ UNCHANGED << now, fsm_state, fsm_data, active_timers, reminder_tasks,
                    tasks, baby_logs, users, user_timezones, pickers >>

\* date:<year>:<month>:<day>
handle_date_selection(u) ==
    /\ "calendar" \in pickers[u]
    /\ pickers' = [pickers EXCEPT ![u] = @ \ {"calendar"}]
    /\ ClearState(u)
    /\ Handled("handle_date_selection", u, <<>>, "report")
    /\ UNCHANGED << now, active_timers, reminder_tasks, tasks, baby_logs,
                    users, user_timezones >>

\* cat:<category>
handle_category_selection(u) ==
    /\ "category" \in pickers[u]
    /\ pickers' = [pickers EXCEPT ![u] = @ \ {"category"}]
    /\ ClearState(u)
    /\ Handled("handle_category_selection", u, <<>>, "report")
    /\ UNCHANGED << now, active_timers, reminder_tasks, tasks, baby_logs,
                    users, user_timezones >>

cancel_calendar(u) ==
    /\ "calendar" \in pickers[u]
    /\ ClearState(u)
    /\ pickers' = [pickers EXCEPT ![u] = @ \ {"calendar"}]
    /\ Handled("cancel_calendar", u, <<>>, "cancelled")
    /\ UNCHANGED << now, active_timers, reminder_tasks, tasks, baby_logs,
                    users, user_timezones >>

cancel_category(u) ==
    /\ "category" \in pickers[u]
    /\ ClearState(u)
    /\ pickers' = [pickers EXCEPT ![u] = @ \ {"category"}]
    /\ Handled("cancel_category", u, <<>>, "cancelled")
    /\ UNCHANGED << now, active_timers, reminder_tasks, tasks, baby_logs,
                    users, user_timezones >>

---------------------------------------------------------------------------
(* The environment: the clock and what the users send *)

Users == {1, 2}

\* The instants at which the steps of a run happen, in seconds after
\* StartOfRun: 23:57:30, then 00:02:30, 00:07:30 and 00:17:30 of the next day.
Timeline == << 0, 300, 600, 1200 >>

\* the clock advances to the next instant of the timeline
Tick ==
    /\ \E k \in 1..(Len(Timeline) - 1) :
          /\ now = StartOfRun + Timeline[k]
          /\ now' = StartOfRun + Timeline[k + 1]
    /\ Handled("tick", 0, <<>>, "")
    /\ UNCHANGED << fsm_state, fsm_data, active_timers, reminder_tasks, tasks,
                    baby_logs, users, user_timezones, pickers >>

Reminder(i) ==
    \/ reminder_wakes(i)
    \/ reminder_requests(i)
    \/ reminder_sent(i)
    \/ reminder_send_fails(i)

Init ==
    /\ now = StartOfRun
    /\ fsm_state = [u \in Users |-> None]
    /\ fsm_data = [u \in Users |-> EmptyDict]
    /\ active_timers = EmptyDict
    /\ reminder_tasks = EmptyDict
    /\ tasks = <<>>
    /\ baby_logs = <<>>
    /\ users = EmptyDict
    /\ user_timezones = EmptyDict
    /\ pickers = [u \in Users |-> {}]
    /\ last = [handler |-> "init", user |-> 0, text |-> <<>>, answer |-> ""]

---------------------------------------------------------------------------
(* Spec: a user times breast and formula feedings as the clock advances,   *)
(* enters the volume and gets reminders                                    *)

\* log rows the run may insert
MaxLog == 4

VOLUME_150 == <<"1", "5", "0">>

\* the texts the user sends, and those they send in a state
ActivityTexts == {VOLUME_150, BTN_GV, BTN_FORMULA, BTN_STOP, BTN_NO}

ActivitySendable(st) ==
    CASE st = "waiting_volume" -> {VOLUME_150, BTN_GV, BTN_STOP}
      [] st = "waiting_description_choice" -> {BTN_NO, BTN_GV, BTN_FORMULA, BTN_STOP}
      [] OTHER -> {BTN_GV, BTN_FORMULA, BTN_STOP}

ActivitySends(u, text) == text \in ActivitySendable(fsm_state[u])

\* the run ends before the row that would exceed MaxLog
ActivityMessage(u, text) ==
    \/ ActivitySends(u, text) /\ start_activity(u, text)
    \/ ActivitySends(u, text) /\ stop_activity(u, text) /\ Len(baby_logs') <= MaxLog
    \/ ActivitySends(u, text) /\ handle_volume(u, text) /\ Len(baby_logs') <= MaxLog
    \/ ActivitySends(u, text) /\ handle_description_choice(u, text)

\* a row arms at most one reminder task
Next ==
    \/ \E text \in ActivityTexts : ActivityMessage(1, text)
    \/ \E i \in 1..MaxLog : Reminder(i)
    \/ Tick

Spec == Init /\ [][Next]_vars

---------------------------------------------------------------------------
(* SpecSession: a user sends every button and input in every state of the  *)
(* conversation, and uses the inline keyboards; the clock stands still     *)

SessionMaxLog == 1

VolumeInputs ==
    { <<"0">>, <<"1">>, <<"5", "0", "0">>, <<"5", "0", "1">>, <<"a", "b", "c">>,
      <<"-", "5">>, <<" ", "7", " ">> }

NoteInputs == {<<" ", "o", "k">>}

MenuButtons ==
    { BTN_GV, BTN_SLEEP, BTN_FORMULA, BTN_STOP, BTN_REPORT, BTN_STATS,
      BTN_BY_DATE, BTN_BY_CATEGORY, BTN_TODAY, BTN_EXPORT, BTN_BACK }

\* the texts the user sends, and those they send in a state
SessionTexts ==
    MenuButtons \cup VolumeInputs \cup NoteInputs \cup {BTN_YES, BTN_NO, <<"h", "i">>}

SessionSendable(st) ==
    CASE st = "waiting_volume" -> VolumeInputs \cup MenuButtons
      [] st = "waiting_description_choice" -> {BTN_YES, BTN_NO} \cup MenuButtons
      [] st = "waiting_description_text" -> NoteInputs \cup {BTN_GV, BTN_STOP}
      [] OTHER -> MenuButtons \cup {<<"h", "i">>}

SessionSends(u, text) == text \in SessionSendable(fsm_state[u])

SessionMessage(u, text) ==
    \/ SessionSends(u, text) /\ start_activity(u, text)
    \/ SessionSends(u, text) /\ stop_activity(u, text) /\ Len(baby_logs') <= SessionMaxLog
    \/ SessionSends(u, text) /\ handle_volume(u, text) /\ Len(baby_logs') <= SessionMaxLog
    \/ SessionSends(u, text) /\ handle_description_choice(u, text)
    \/ SessionSends(u, text) /\ save_description(u, text)
    \/ SessionSends(u, text) /\ show_reports_menu(u, text)
    \/ SessionSends(u, text) /\ report_today(u, text)
    \/ SessionSends(u, text) /\ ask_report_date(u, text)
    \/ SessionSends(u, text) /\ ask_report_category(u, text)
    \/ SessionSends(u, text) /\ export_csv(u, text)
    \/ SessionSends(u, text) /\ back_to_main(u, text)
    \/ SessionSends(u, text) /\ show_statistics(u, text)
    \/ SessionSends(u, text) /\ fallback_handler(u, text)

CallbackQuery(u) ==
    \/ handle_calendar_nav(u)
    \/ handle_date_selection(u)
    \/ handle_category_selection(u)
    \/ cancel_calendar(u)
    \/ cancel_category(u)

NextSession ==
    \/ \E text \in SessionTexts : SessionMessage(1, text)
    \/ CallbackQuery(1)

SpecSession == Init /\ [][NextSession]_vars

---------------------------------------------------------------------------
(* SpecOnboarding: two users send the start command, a child name and a    *)
(* timezone, before or after they start a feeding                          *)

\* log rows the run may insert
OnboardingMaxLog == 1

\* a child name with spaces around it, and one longer than NAME_LIMIT
NameAlice == <<" ", "A", "l", "i", "c", "e", " ">>
LongName == [i \in 1..(NAME_LIMIT + 2) |-> IF i % 2 = 1 THEN "a" ELSE "b"]
NameInputs == {NameAlice, LongName, DEFAULT_BABY_NAME}

TimezoneInputs == {TZ_BANGKOK, <<" ">> \o TZ_LONDON, <<"M", "a", "r", "s">>}

\* the texts the users send, and those a user sends in a state; only the
\* first user times a feeding
OnboardingTexts ==
    {CMD_START, BTN_TZ_MOSCOW, BTN_TZ_YEKATERINBURG, BTN_TZ_SKIP, BTN_TZ_OTHER,
     BTN_STOP, BTN_GV, <<"h", "i">>} \cup NameInputs \cup TimezoneInputs

OnboardingSendable(u, st) ==
    {CMD_START} \cup
    CASE st = "waiting_baby_name" -> NameInputs
      [] st = "waiting_timezone_choice" ->
            {BTN_TZ_MOSCOW, BTN_TZ_YEKATERINBURG, BTN_TZ_SKIP, BTN_TZ_OTHER, BTN_STOP}
      [] st = "waiting_custom_timezone" -> TimezoneInputs
      [] OTHER -> {<<"h", "i">>} \cup (IF u = 1 THEN {BTN_GV, BTN_STOP} ELSE {})

OnboardingSends(u, text) == text \in OnboardingSendable(u, fsm_state[u])

OnboardingMessage(u, text) ==
    \/ OnboardingSends(u, text) /\ start_handler(u, text)
    \/ OnboardingSends(u, text) /\ handle_baby_name(u, text)
    \/ OnboardingSends(u, text) /\ handle_timezone_choice(u, text)
    \/ OnboardingSends(u, text) /\ handle_custom_timezone(u, text)
    \/ OnboardingSends(u, text) /\ start_activity(u, text)
    \/ OnboardingSends(u, text) /\ stop_activity(u, text)
          /\ Len(baby_logs') <= OnboardingMaxLog
    \/ OnboardingSends(u, text) /\ fallback_handler(u, text)

NextOnboarding ==
    \E u \in Users : \E text \in OnboardingTexts : OnboardingMessage(u, text)

SpecOnboarding == Init /\ [][NextOnboarding]_vars

---------------------------------------------------------------------------
(* SpecEstimate: get_average_interval on tables drawn from a bounded set   *)

\* the rows are at minutes 23:56, 23:57, ... of day 0 and on into day 1
EstimatePoints == 12
FirstMinute == 23 * 60 + 56

PointRow(u, category, k) ==
    LogRow(u, category, 0, (FirstMinute + k - 1) \div 1440,
           (FirstMinute + k - 1) % 1440)

\* the rows of the points of S, oldest first
RECURSIVE RowsOf(_, _, _)
RowsOf(u, category, S) ==
    IF S = {} THEN <<>>
    ELSE LET k == CHOOSE x \in S : \A y \in S : x <= y
         IN  <<PointRow(u, category, k)>> \o RowsOf(u, category, S \ {k})

Odd(S) == {k \in S : k % 2 = 1}

\* A table: rows of user 1 and GV at the points of S, inserted oldest first or
\* the odd points before the even ones; with or without a second row at the
\* latest point; with or without rows of another user and another category.
EstimateTable(S, shuffled, tie, others) ==
    (IF others THEN <<PointRow(2, GV, 3), PointRow(1, SLEEP, 1)>> ELSE <<>>)
    \o (IF shuffled
        THEN RowsOf(1, GV, Odd(S)) \o RowsOf(1, GV, S \ Odd(S))
        ELSE RowsOf(1, GV, S))
    \o (IF tie /\ S # {}
        THEN <<PointRow(1, GV, CHOOSE x \in S : \A y \in S : x >= y)>>
        ELSE <<>>)
    \o (IF others THEN <<PointRow(2, GV, 5)>> ELSE <<>>)

InitEstimate ==
    /\ now = StartOfRun
    /\ fsm_state = [u \in Users |-> None]
    /\ fsm_data = [u \in Users |-> EmptyDict]
    /\ active_timers = EmptyDict
    /\ reminder_tasks = EmptyDict
    /\ tasks = <<>>
    /\ \E S \in SUBSET (1..EstimatePoints) : \E shuffled, tie, others \in BOOLEAN :
           baby_logs = EstimateTable(S, shuffled, tie, others)
    /\ users = EmptyDict
    /\ user_timezones = EmptyDict
    /\ pickers = [u \in Users |-> {}]
    /\ last = [handler |-> "init", user |-> 0, text |-> <<>>, answer |-> ""]

\* a call of get_average_interval(user_id, category); its result is the answer
Estimate(u, category) ==
    /\ last' = [ handler |-> "get_average_interval", user |-> u,
                 text |-> <<category>>,
                 answer |-> get_average_interval(baby_logs, u, category) ]
    /\ UNCHANGED << now, fsm_state, fsm_data, active_timers, reminder_tasks,
                    tasks, baby_logs, users, user_timezones, pickers >>

NextEstimate == \E u \in Users : \E category \in {GV, SLEEP} : Estimate(u, category)

SpecEstimate == InitEstimate /\ [][NextEstimate]_vars

---------------------------------------------------------------------------
(* SpecText: handle_baby_name and save_description on texts of lengths     *)
(* around the two limits, with and without whitespace around them          *)

\* how far the lengths of the texts go beyond 0 and around the limits
TextSlack == 2

TextLengths ==
    (1..TextSlack) \cup ((NAME_LIMIT - TextSlack)..(NAME_LIMIT + TextSlack))
    \cup ((NOTE_LIMIT - TextSlack)..(NOTE_LIMIT + TextSlack))

Spaces(k) == [i \in 1..k |-> " "]

\* n characters; with a gap, every 50th of them is a space
TextBody(n, gap) ==
    [i \in 1..n |-> IF gap /\ i % 50 = 0 THEN " " ELSE IF i % 2 = 1 THEN "a" ELSE "b"]

TextInputs ==
    { Spaces(l) \o TextBody(n, gap) \o Spaces(r) :
        l \in 0..1, r \in 0..1, n \in TextLengths, gap \in BOOLEAN }

\* user 1 has sent the start command and is asked for the name, or has
\* stopped a feeding and chosen to write a note for its row
InitText ==
    /\ now = StartOfRun
    /\ active_timers = EmptyDict
    /\ reminder_tasks = EmptyDict
    /\ tasks = <<>>
    /\ user_timezones = EmptyDict
    /\ pickers = [u \in Users |-> {}]
    /\ \/ /\ users = Put(EmptyDict, 1, NULL)
          /\ fsm_state = [u \in Users |-> IF u = 1 THEN "waiting_baby_name" ELSE None]
          /\ fsm_data = [u \in Users |-> EmptyDict]
          /\ baby_logs = <<>>
          /\ last = [handler |-> "start_handler", user |-> 1, text |-> CMD_START,
                     answer |-> "ask_baby_name"]
       \/ /\ users = EmptyDict
          /\ fsm_state =
               [u \in Users |-> IF u = 1 THEN "waiting_description_text" ELSE None]
          /\ fsm_data =
               [u \in Users |-> IF u = 1 THEN [last_task_id |-> 1] ELSE EmptyDict]
          /\ baby_logs = << LogRow(1, GV, 0, Today(StartOfRun),
                                   LocalHHMM(TZ_MOSCOW, StartOfRun)) >>
          /\ last = [handler |-> "handle_description_choice", user |-> 1,
                     text |-> BTN_YES, answer |-> "ask_note"]

NextText ==
    \E text \in TextInputs :
        \/ handle_baby_name(1, text)
        \/ save_description(1, text)

SpecText == InitText /\ [][NextText]_vars

---------------------------------------------------------------------------
(* SpecUsers: after a restart with the rows of earlier feedings in the     *)
(* table, two users time feedings, enter volumes and notes, register, open *)
(* the reports and cancel the calendar, in any interleaving                *)

\* log rows the run may insert
UsersMaxLog == 1

NOTE_OK == <<"o", "k">>

\* two breast feedings of each user, stopped at 21:00 and 21:20 UTC of the
\* day of the restart
EarlierRows ==
    << LogRow(1, GV, 60, Today(StartOfRun), 0), LogRow(2, GV, 60, Today(StartOfRun), 0),
       LogRow(1, GV, 60, Today(StartOfRun), 20), LogRow(2, GV, 60, Today(StartOfRun), 20) >>

InitUsers ==
    /\ now = StartOfRun
    /\ fsm_state = [u \in Users |-> None]
    /\ fsm_data = [u \in Users |-> EmptyDict]
    /\ active_timers = EmptyDict
    /\ reminder_tasks = EmptyDict
    /\ tasks = <<>>
    /\ baby_logs = EarlierRows
    /\ users = EmptyDict
    /\ user_timezones = EmptyDict
    /\ pickers = [u \in Users |-> {}]
    /\ last = [handler |-> "init", user |-> 0, text |-> <<>>, answer |-> ""]

UsersTexts ==
    { CMD_START, NOTE_OK, BTN_TZ_SKIP, BTN_GV, BTN_FORMULA, BTN_STOP, VOLUME_150,
      BTN_YES, BTN_NO, BTN_REPORT, BTN_BY_DATE, BTN_STATS }

\* user 2 only times feedings and writes volumes and notes for them
UsersSendable(u, st) ==
    CASE u = 2 /\ st = "waiting_volume" -> {VOLUME_150}
      [] u = 2 /\ st = "waiting_description_choice" -> {BTN_YES, BTN_NO}
      [] u = 2 /\ st = "waiting_description_text" -> {NOTE_OK}
      [] u = 2 -> {BTN_GV, BTN_FORMULA, BTN_STOP}
      [] st = "waiting_baby_name" -> {NOTE_OK}
      [] st = "waiting_timezone_choice" -> {BTN_TZ_SKIP}
      [] st = "waiting_volume" -> {VOLUME_150, NOTE_OK, BTN_GV, BTN_STOP}
      [] st = "waiting_description_choice" -> {BTN_YES, BTN_NO}
      [] st = "waiting_description_text" -> {NOTE_OK}
      [] st = "waiting_reports_menu" -> {BTN_BY_DATE}
      [] st = "choosing_calendar_month" -> {BTN_FORMULA, BTN_STOP}
      [] OTHER -> {CMD_START, BTN_GV, BTN_FORMULA, BTN_STOP, BTN_REPORT, BTN_STATS, NOTE_OK}

UsersSends(u, text) == text \in UsersSendable(u, fsm_state[u])

UsersMessage(u, text) ==
    \/ UsersSends(u, text) /\ start_handler(u, text)
    \/ UsersSends(u, text) /\ handle_baby_name(u, text)
    \/ UsersSends(u, text) /\ handle_timezone_choice(u, text)
    \/ UsersSends(u, text) /\ start_activity(u, text)
    \/ UsersSends(u, text) /\ stop_activity(u, text)
          /\ Len(baby_logs') <= Len(EarlierRows) + UsersMaxLog
    \/ UsersSends(u, text) /\ handle_volume(u, text)
          /\ Len(baby_logs') <= Len(EarlierRows) + UsersMaxLog
    \/ UsersSends(u, text) /\ handle_description_choice(u, text)
    \/ UsersSends(u, text) /\ save_description(u, text)
    \/ UsersSends(u, text) /\ show_reports_menu(u, text)
    \/ UsersSends(u, text) /\ ask_report_date(u, text)
    \/ UsersSends(u, text) /\ show_statistics(u, text)
    \/ UsersSends(u, text) /\ fallback_handler(u, text)

NextUsers ==
    \/ \E u \in Users : \E text \in UsersTexts : UsersMessage(u, text)
    \/ cancel_calendar(1)

SpecUsers == InitUsers /\ [][NextUsers]_vars

---------------------------------------------------------------------------
(* SpecAwait: start_polling handles every update in a task of its own, so  *)
(* a handler of a user that waits for Telegram in message.answer is        *)
(* suspended while later messages of the same user are handled.  The       *)
(* suspended stop_activity is an entry of tasks, next to the reminders.    *)

\* log rows the run may insert
AwaitMaxLog == 2

\* the coroutine of stop_activity after the INSERT, with its local task_id
HandlerTask(u, category, task_id) ==
    [ user |-> u, category |-> category, pc |-> "answers_finished", task_id |-> task_id ]

\* a stop_activity that takes the timer out of active_timers only after its
\* first message.answer
stop_activity_begins_popping_later(u, text) ==
    /\ Route(fsm_state[u], text) = "stop_activity"
    /\ u \in DOMAIN active_timers
    /\ active_timers[u].category # FORMULA
    /\ LET timer_data == active_timers[u]
           elapsed == Elapsed(timer_data.start, now)
           timestart_str == LocalHHMM(get_user_tz(u), now)
       IN  /\ baby_logs' = Append(baby_logs, stopped_row(u, timer_data, elapsed, timestart_str))
           /\ tasks' = Append(tasks, HandlerTask(u, timer_data.category, Len(baby_logs')))
    /\ Handled("stop_activity", u, text, "answering")
    /\ UNCHANGED << now, fsm_state, fsm_data, active_timers, reminder_tasks, users,
                    user_timezones, pickers >>

\* stop_activity of a category other than Smes, up to the first
\* message.answer after the INSERT
stop_activity_begins(u, text) ==
    /\ Route(fsm_state[u], text) = "stop_activity"
    /\ u \in DOMAIN active_timers
    /\ active_timers[u].category # FORMULA
    /\ LET timer_data == active_timers[u]
           elapsed == Elapsed(timer_data.start, now)
           timestart_str == LocalHHMM(get_user_tz(u), now)
       IN  /\ active_timers' = Pop(active_timers, u)
           /\ baby_logs' = Append(baby_logs, stopped_row(u, timer_data, elapsed, timestart_str))
           /\ tasks' = Append(tasks, HandlerTask(u, timer_data.category, Len(baby_logs')))
    /\ Handled("stop_activity", u, text, "answering")
    /\ UNCHANGED << now, fsm_state, fsm_data, reminder_tasks, users, user_timezones,
                    pickers >>

\* the answer is delivered: the reminder is planned and the id of the row
\* goes into the data, up to the message.answer that asks for the note
stop_activity_plans(i) ==
    /\ i \in DOMAIN tasks
    /\ tasks[i].pc = "answers_finished"
    /\ LET u == tasks[i].user
           avg_interval == get_average_interval(baby_logs, u, tasks[i].category)
           resumed == [tasks EXCEPT ![i].pc = "asks_note"]
       IN  /\ IF should_remind(avg_interval)
              THEN /\ tasks' = Append(IF u \in DOMAIN reminder_tasks
                                       THEN Cancel(resumed, reminder_tasks[u]) ELSE resumed,
                                      NewTask(u, tasks[i].category, avg_interval[1]))
                   /\ reminder_tasks' = register_task(u, Len(tasks) + 1)
              ELSE /\ tasks' = resumed
                   /\ UNCHANGED reminder_tasks
           /\ fsm_data' = [fsm_data EXCEPT ![u] = Update(@, [last_task_id |-> tasks[i].task_id])]
           /\ Handled("stop_activity", u, BTN_STOP, "asking_note")
    /\ UNCHANGED << now, fsm_state, active_timers, baby_logs, users, user_timezones,
                    pickers >>

\* the question is delivered: state.set_state(waiting_description_choice)
stop_activity_finishes(i) ==
    /\ i \in DOMAIN tasks
    /\ tasks[i].pc = "asks_note"
    /\ tasks' = [tasks EXCEPT ![i].pc = "done"]
    /\ fsm_state' = [fsm_state EXCEPT ![tasks[i].user] = "waiting_description_choice"]
    /\ Handled("stop_activity", tasks[i].user, BTN_STOP, "finished")
    /\ UNCHANGED << now, fsm_data, active_timers, reminder_tasks, baby_logs, users,
                    user_timezones, pickers >>

AwaitTexts == {BTN_GV, BTN_STOP, BTN_YES, BTN_NO, NOTE_OK}

AwaitSendable(st) ==
    CASE st = "waiting_description_choice" -> {BTN_YES, BTN_NO, BTN_GV, BTN_STOP}
      [] st = "waiting_description_text" -> {NOTE_OK, BTN_GV, BTN_STOP}
      [] OTHER -> {BTN_GV, BTN_STOP}

AwaitSends(u, text) == text \in AwaitSendable(fsm_state[u])

AwaitMessage(u, text) ==
    \/ AwaitSends(u, text) /\ start_activity(u, text)
    \/ AwaitSends(u, text) /\ stop_activity(u, text) /\ u \notin DOMAIN active_timers
    \/ AwaitSends(u, text) /\ stop_activity_begins(u, text)
          /\ Len(baby_logs') <= AwaitMaxLog
    \/ AwaitSends(u, text) /\ handle_description_choice(u, text)
    \/ AwaitSends(u, text) /\ save_description(u, text)

NextAwait ==
    \/ \E text \in AwaitTexts : AwaitMessage(1, text)
    \/ \E i \in 1..AwaitMaxLog : stop_activity_plans(i)
    \/ \E i \in 1..AwaitMaxLog : stop_activity_finishes(i)

SpecAwait == Init /\ [][NextAwait]_vars

---------------------------------------------------------------------------
(* SpecIdle: one user goes through all nine states of BabyStates, with and *)
(* without a timer and with the data each state is entered with            *)

\* log rows the run may insert
IdleMaxLog == 1

IdleTexts ==
    { CMD_START, NOTE_OK, BTN_TZ_MOSCOW, BTN_TZ_OTHER, TZ_BANGKOK, <<"M", "a", "r", "s">>,
      BTN_GV, BTN_FORMULA, BTN_STOP, VOLUME_150, BTN_YES, BTN_NO, BTN_REPORT,
      BTN_TODAY, BTN_BY_DATE, BTN_BY_CATEGORY, BTN_BACK }

IdleSendable(st) ==
    CASE st = "waiting_baby_name" -> {NOTE_OK, CMD_START}
      [] st = "waiting_timezone_choice" -> {BTN_TZ_MOSCOW, BTN_TZ_OTHER, NOTE_OK, CMD_START}
      [] st = "waiting_custom_timezone" -> {TZ_BANGKOK, <<"M", "a", "r", "s">>}
      [] st = "waiting_volume" -> {VOLUME_150, NOTE_OK, BTN_GV, BTN_STOP, CMD_START}
      [] st = "waiting_description_choice" ->
           {BTN_YES, BTN_NO, NOTE_OK, BTN_GV, BTN_STOP, CMD_START}
      [] st = "waiting_description_text" -> {NOTE_OK, CMD_START}
      [] st = "waiting_reports_menu" ->
           {BTN_TODAY, BTN_BY_DATE, BTN_BY_CATEGORY, BTN_BACK, BTN_GV, BTN_STOP,
            CMD_START, NOTE_OK}
      [] st \in {"choosing_calendar_month", "choosing_category_report"} ->
           {BTN_REPORT, BTN_GV, BTN_FORMULA, BTN_STOP, CMD_START, NOTE_OK}
      [] OTHER -> {CMD_START, BTN_GV, BTN_FORMULA, BTN_STOP, BTN_REPORT, NOTE_OK}

IdleSends(u, text) == text \in IdleSendable(fsm_state[u])

\* a timer is stopped only while the log has room for its row, so that the
\* volume asked for after the stop can always be stored
IdleMessage(u, text) ==
    \/ IdleSends(u, text) /\ start_handler(u, text)
    \/ IdleSends(u, text) /\ handle_baby_name(u, text)
    \/ IdleSends(u, text) /\ handle_timezone_choice(u, text)
    \/ IdleSends(u, text) /\ handle_custom_timezone(u, text)
    \/ IdleSends(u, text) /\ start_activity(u, text)
    \/ IdleSends(u, text) /\ stop_activity(u, text) /\ Len(baby_logs) < IdleMaxLog
    \/ IdleSends(u, text) /\ handle_volume(u, text)
    \/ IdleSends(u, text) /\ handle_description_choice(u, text)
    \/ IdleSends(u, text) /\ save_description(u, text)
    \/ IdleSends(u, text) /\ show_reports_menu(u, text)
    \/ IdleSends(u, text) /\ report_today(u, text)
    \/ IdleSends(u, text) /\ ask_report_date(u, text)
    \/ IdleSends(u, text) /\ ask_report_category(u, text)
    \/ IdleSends(u, text) /\ back_to_main(u, text)
    \/ IdleSends(u, text) /\ fallback_handler(u, text)

NextIdle ==
    \/ \E text \in IdleTexts : IdleMessage(1, text)
    \/ CallbackQuery(1)

\* the events that lead out of a state: a name, the Moscow preset, a valid
\* identifier, a volume, "no", a note, "back", and the cancel buttons
IdleExit ==
    \/ IdleSends(1, NOTE_OK) /\ handle_baby_name(1, NOTE_OK)
    \/ IdleSends(1, BTN_TZ_MOSCOW) /\ handle_timezone_choice(1, BTN_TZ_MOSCOW)
    \/ IdleSends(1, TZ_BANGKOK) /\ handle_custom_timezone(1, TZ_BANGKOK)
    \/ IdleSends(1, VOLUME_150) /\ handle_volume(1, VOLUME_150)
    \/ IdleSends(1, BTN_NO) /\ handle_description_choice(1, BTN_NO)
    \/ IdleSends(1, NOTE_OK) /\ save_description(1, NOTE_OK)
    \/ IdleSends(1, BTN_BACK) /\ back_to_main(1, BTN_BACK)
    \/ cancel_calendar(1) /\ fsm_state[1] # None
    \/ cancel_category(1) /\ fsm_state[1] # None

SpecIdle == Init /\ [][NextIdle]_vars

---------------------------------------------------------------------------
(* SpecReminders: after a restart with the rows of earlier breast feedings *)
(* in the table, two users time feedings as the clock advances; every stop *)
(* arms a reminder, and a reminder that wakes sends or fails to send       *)

\* log rows the run may insert
RemindersMaxLog == 3

\* two breast feedings of each user, stopped at 02:45 and 02:51 of the default
\* zone (23:45 and 23:51 UTC) on the day of the restart
ReminderRows ==
    << LogRow(1, GV, 60, Today(StartOfRun), 165), LogRow(2, GV, 60, Today(StartOfRun), 165),
       LogRow(1, GV, 60, Today(StartOfRun), 171), LogRow(2, GV, 60, Today(StartOfRun), 171) >>

InitReminders ==
    /\ now = StartOfRun
    /\ fsm_state = [u \in Users |-> None]
    /\ fsm_data = [u \in Users |-> EmptyDict]
    /\ active_timers = EmptyDict
    /\ reminder_tasks = EmptyDict
    /\ tasks = <<>>
    /\ baby_logs = ReminderRows
    /\ users = EmptyDict
    /\ user_timezones = EmptyDict
    /\ pickers = [u \in Users |-> {}]
    /\ last = [handler |-> "init", user |-> 0, text |-> <<>>, answer |-> ""]

\* a user starts a feeding when none is timed and stops the one that is;
\* user 2 times one feeding
RemindersSends(u, text) ==
    /\ (text = BTN_STOP) <=> (u \in DOMAIN active_timers)
    /\ u = 2 => fsm_state[2] = None

\* the run ends before the row that would exceed RemindersMaxLog
RemindersMessage(u, text) ==
    \/ RemindersSends(u, text) /\ start_activity(u, text)
    \/ /\ RemindersSends(u, text)
       /\ stop_activity(u, text)
       /\ Len(baby_logs') <= Len(ReminderRows) + RemindersMaxLog

NextReminders ==
    \/ \E u \in Users : \E text \in {BTN_GV, BTN_STOP} : RemindersMessage(u, text)
    \/ \E i \in 1..RemindersMaxLog : Reminder(i)
    \/ Tick

SpecReminders == InitReminders /\ [][NextReminders]_vars

---------------------------------------------------------------------------
(* Properties *)

\* the step taken is a call of handler h for user u
Took(h, u) == last'.handler = h /\ last'.user = u

\* the step appends exactly one row to baby_logs and changes no other row
AppendsOneRow ==
    /\ Len(baby_logs') = Len(baby_logs) + 1
    /\ SubSeq(baby_logs', 1, Len(baby_logs)) = baby_logs

NewRow == baby_logs'[Len(baby_logs')]

LastRow == baby_logs[Len(baby_logs)]

\* the states whose handlers are registered before start_activity
OnboardingStates ==
    {"waiting_baby_name", "waiting_timezone_choice", "waiting_custom_timezone"}

PendingOf(u) == {i \in 1..Len(tasks) : tasks[i].user = u /\ tasks[i].pc \in Pending}

C3_StopLogsTheTimer ==
    [][ \A u \in Users :
          (Took("stop_activity", u) /\ u \in DOMAIN active_timers
             /\ active_timers[u].category # FORMULA)
          => /\ u \notin DOMAIN active_timers'
             /\ AppendsOneRow
             /\ NewRow.user_id = u
             /\ NewRow.category = active_timers[u].category
             /\ NewRow.duration = now - active_timers[u].start
             /\ NewRow.duration >= 0
             /\ "volume" \notin DOMAIN NewRow
             /\ NewRow.date = active_timers[u].date
             /\ fsm_state'[u] = "waiting_description_choice"
             /\ fsm_data'[u].last_task_id = Len(baby_logs') ]_vars

\* a timer started before midnight was stopped after it
C3_Witness ==
    /\ last.handler = "stop_activity"
    /\ last.answer = "finished"
    /\ LastRow.duration > 0
    /\ LastRow.date # Today(now)
    /\ fsm_data[last.user].last_task_id = Len(baby_logs)

\* the step stops a running timer of Smes for user u
StopsFormula(u) ==
    /\ Took("stop_activity", u)
    /\ u \in DOMAIN active_timers
    /\ active_timers[u].category = FORMULA

\* what stop_activity keeps of a stopped timer of Smes
FormulaContext(data) ==
    [ k \in {"last_category", "last_elapsed", "last_start", "last_date"} |-> data[k] ]

\* C4: stopping a timer of Smes writes no row and leaves the session waiting
\* for the volume, with the elapsed seconds, the time of the stop and the
\* date of the start kept in the session data; the session enters that state
\* in no other way and keeps these data while it stays there; the volume then
\* accepted appends exactly one row of Smes with the kept duration (measured
\* at the stop), the kept date and start time and that volume, and the session
\* waits for the note choice with the id of the new row in its data.
C4_FormulaRowWaitsForVolume ==
    [][ \A u \in Users :
          /\ StopsFormula(u)
             => /\ baby_logs' = baby_logs
                /\ u \notin DOMAIN active_timers'
                /\ fsm_state'[u] = "waiting_volume"
                /\ FormulaContext(fsm_data'[u]) =
                     [ last_category |-> FORMULA,
                       last_elapsed |-> now - active_timers[u].start,
                       last_start |-> LocalHHMM(get_user_tz(u), now),
                       last_date |-> active_timers[u].date ]
          /\ (fsm_state'[u] = "waiting_volume" /\ ~StopsFormula(u))
             => /\ fsm_state[u] = "waiting_volume"
                /\ FormulaContext(fsm_data'[u]) = FormulaContext(fsm_data[u])
          /\ (Took("handle_volume", u) /\ last'.answer = "finished")
             => /\ fsm_state[u] = "waiting_volume"
                /\ AppendsOneRow
                /\ NewRow.user_id = u
                /\ NewRow.category = FORMULA
                /\ NewRow.duration = fsm_data[u].last_elapsed
                /\ NewRow.date = fsm_data[u].last_date
                /\ NewRow.time_start = fsm_data[u].last_start
                /\ <<NewRow.volume>> = ParseInt(strip(last'.text))
                /\ fsm_state'[u] = "waiting_description_choice"
                /\ fsm_data'[u].last_task_id = Len(baby_logs') ]_vars

\* the volume 150 was entered at a later instant than the stop, the day after
\* the start
C4_Witness ==
    /\ last.handler = "handle_volume"
    /\ last.answer = "finished"
    /\ LastRow.category = FORMULA
    /\ LastRow.volume = 150
    /\ LastRow.duration = 300
    /\ LastRow.date # Today(now)
    /\ LastRow.time_start # LocalHHMM(get_user_tz(last.user), now)
    /\ fsm_state[last.user] = "waiting_description_choice"
    /\ fsm_data[last.user].last_task_id = Len(baby_logs)

\* the step refuses the volume: the session, its data, the log and the
\* reminders stay as they are
VolumeRejected(u) ==
    /\ last'.answer \in {"not_a_number", "InvalidVolume"}
    /\ UNCHANGED << fsm_state, fsm_data, baby_logs, tasks, reminder_tasks >>
    /\ fsm_state[u] = "waiting_volume"

\* the step accepts the volume and stores v in the new row
VolumeAccepted(u, v) ==
    /\ last'.answer = "finished"
    /\ AppendsOneRow
    /\ NewRow.volume = v

\* C5: a volume input is accepted exactly when it reads as an integer v with
\* 1 <= v <= 500: "0", "501" and "abc" are refused, "1" and "500" are
\* accepted; an accepted v is stored as it is in the row, and a refused input
\* leaves the session waiting for the volume with its data unchanged, writes
\* no row and arms no reminder.
C5_VolumeRange ==
    [][ \A u \in Users :
          Took("handle_volume", u)
          => LET text == last'.text
                 v == ParseInt(strip(text))
             IN  /\ IF v # Nothing /\ 1 <= v[1] /\ v[1] <= 500
                    THEN VolumeAccepted(u, v[1])
                    ELSE VolumeRejected(u)
                 /\ text \in {<<"0">>, <<"5", "0", "1">>, <<"a", "b", "c">>}
                    => VolumeRejected(u)
                 /\ text = <<"1">> => VolumeAccepted(u, 1)
                 /\ text = <<"5", "0", "0">> => VolumeAccepted(u, 500) ]_vars

\* the largest volume was accepted and stored
C5_Witness ==
    /\ last.handler = "handle_volume"
    /\ last.text = <<"5", "0", "0">>
    /\ last.answer = "finished"
    /\ LastRow.volume = 500
    /\ LastRow.category = FORMULA

\* task j was created for the user of task i after task i
Supersedes(j, i) == i < j /\ tasks[j].user = tasks[i].user

\* C6: when a reminder is scheduled for a user, every earlier reminder task of
\* that user is out of play, whether it was sleeping or sending; once a later
\* task of the user exists, an earlier one takes no step: its notification
\* does not go out and it does not complete or fail; and a cancelled task
\* stays as it was cancelled: one cancelled before its notification went out
\* never sends it, and none reports an error.
C6_SecondReminderCancelsFirst ==
    [][ \A i \in 1..Len(tasks) :
          /\ (Len(tasks') > Len(tasks) /\ tasks'[Len(tasks')].user = tasks[i].user)
             => /\ tasks'[i].pc \notin Pending
                /\ tasks'[i].out = tasks[i].out
          /\ (\E j \in 1..Len(tasks) : Supersedes(j, i))
             => /\ tasks[i].pc \notin Pending
                /\ tasks'[i] = tasks[i]
          /\ tasks[i].pc \in Cancelled => tasks'[i] = tasks[i] ]_vars

\* the first reminder was cancelled while it was sending, before its request
\* was written, and the second is pending
C6_Witness ==
    \E i, j \in 1..Len(tasks) :
        /\ Supersedes(j, i)
        /\ tasks[i].pc = "cancelled_sending"
        /\ ~tasks[i].out
        /\ tasks[j].pc \in Pending

\* C7: of all the reminder tasks ever created for a user, whatever their
\* category, at most one is pending, and it is the one in reminder_tasks;
\* the entry of a user in reminder_tasks is the last task created for them.
C7_OnePendingReminder ==
    \A u \in Users :
        /\ Cardinality(PendingOf(u)) <= 1
        /\ \A i \in 1..Len(tasks) :
             tasks[i].user = u
             => /\ u \in DOMAIN reminder_tasks
                /\ reminder_tasks[u] >= i
                /\ tasks[reminder_tasks[u]].user = u

\* a user's reminder of one category was cancelled in its sleep by a reminder
\* of the other category, and the one pending is the one in reminder_tasks
C7_Witness ==
    \E u \in Users :
        /\ Cardinality({i \in 1..Len(tasks) : tasks[i].user = u}) >= 2
        /\ Cardinality({tasks[i].category : i \in 1..Len(tasks)}) = 2
        /\ tasks[1].pc = "cancelled_sleeping"
        /\ PendingOf(u) = {reminder_tasks[u]}

\* C8: when a row is logged, a reminder is armed exactly when the interval
\* estimated for the user and category of that row is known and greater than
\* 300 seconds; otherwise (unknown, or 300 or less) no task is created, no
\* task is cancelled and reminder_tasks stays as it is.  No reminder is armed
\* by a step that logs no row.
C8_ReminderOnlyAboveFloor ==
    [][ /\ Len(baby_logs') > Len(baby_logs)
           => LET estimate ==
                      get_average_interval(baby_logs', NewRow.user_id, NewRow.category)
              IN  IF estimate # Nothing /\ estimate[1] > 300
                  THEN /\ Len(tasks') = Len(tasks) + 1
                       /\ tasks'[Len(tasks')].user = NewRow.user_id
                       /\ tasks'[Len(tasks')].category = NewRow.category
                       /\ tasks'[Len(tasks')].interval = estimate[1]
                       /\ tasks'[Len(tasks')].pc = "sleeping"
                       /\ reminder_tasks'[NewRow.user_id] = Len(tasks')
                  ELSE UNCHANGED << tasks, reminder_tasks >>
        /\ Len(tasks') > Len(tasks) => Len(baby_logs') > Len(baby_logs) ]_vars

\* a row was logged whose estimate is exactly 300 seconds: no reminder was
\* armed for it and the reminder pending from an earlier row is still pending
C8_Witness ==
    /\ last.handler \in {"stop_activity", "handle_volume"}
    /\ last.answer = "finished"
    /\ get_average_interval(baby_logs, last.user, LastRow.category) = Just(300)
    /\ \E i \in PendingOf(last.user) :
         /\ tasks[i].category # LastRow.category
         /\ reminder_tasks[last.user] = i

\* the rows of baby_logs of user u and a category, by their ids
Matching(u, category) ==
    { i \in 1..Len(baby_logs) :
        baby_logs[i].user_id = u /\ baby_logs[i].category = category }

TimeOf(i) == baby_logs[i].date * 24 * 60 * 60 + baby_logs[i].time_start * 60

\* the place of row i among the rows M, latest first (rows of one time in the
\* order of their ids)
Rank(i, M) ==
    1 + Cardinality({ j \in M : \/ TimeOf(j) > TimeOf(i)
                                \/ TimeOf(j) = TimeOf(i) /\ j < i })

\* T0 >= T1 >= ... : the times of the (at most 10) latest entries
EntryTimes(u, category) ==
    LET M == Matching(u, category)
        n == IF Cardinality(M) > 10 THEN 10 ELSE Cardinality(M)
    IN  [ k \in 1..n |-> TimeOf(CHOOSE i \in M : Rank(i, M) = k) ]

\* |Ti - Ti+1|
Gaps(T) ==
    [ k \in 1..(Len(T) - 1) |->
        IF T[k] >= T[k + 1] THEN T[k] - T[k + 1] ELSE T[k + 1] - T[k] ]

\* the last step was a call of get_average_interval
Estimated == last.handler = "get_average_interval"

\* C9 (as stated): the estimate is unknown for 0 or 1 entries, and otherwise
\* the mean of the gaps |Ti - Ti+1| of the latest entries rounded to whole
\* seconds, that is a whole number at most half a second from the mean.
C9_EstimateIsRoundedMean ==
    Estimated
    => LET T == EntryTimes(last.user, last.text[1])
           total == SumSeq(Gaps(T))
           n == Len(T) - 1
       IN  IF Len(T) < 2
           THEN last.answer = Nothing
           ELSE /\ last.answer # Nothing
                /\ 2 * (n * last.answer[1] - total) <= n
                /\ 2 * (total - n * last.answer[1]) <= n

\* C9 (amended): the estimate is unknown for 0 or 1 entries of the user and
\* category, and otherwise, over the (at most 10) entries latest by date and
\* start time, it is the mean of the gaps |Ti - Ti+1| cut down to whole
\* seconds: the largest whole number not above the mean.
C9_EstimateIsTruncatedMean ==
    Estimated
    => LET T == EntryTimes(last.user, last.text[1])
           total == SumSeq(Gaps(T))
           n == Len(T) - 1
       IN  IF Len(T) < 2
           THEN last.answer = Nothing
           ELSE /\ last.answer # Nothing
                /\ n * last.answer[1] <= total
                /\ total < n * (last.answer[1] + 1)

\* more than 10 entries, of which the latest 10 have a mean gap of 66.67
\* seconds: the estimate is 66
C9_Witness ==
    /\ Estimated
    /\ Cardinality(Matching(last.user, last.text[1])) > 10
    /\ LET T == EntryTimes(last.user, last.text[1])
       IN  /\ SumSeq(Gaps(T)) = 600
           /\ Len(T) = 10
    /\ last.answer = Just(66)

\* the text without the whitespace before its first and after its last
\* character that is not whitespace
Trimmed(text) ==
    LET inked == { i \in 1..Len(text) : text[i] \notin Whitespace }
    IN  IF inked = {} THEN <<>>
        ELSE SubSeq(text, CHOOSE i \in inked : \A j \in inked : i <= j,
                          CHOOSE i \in inked : \A j \in inked : i >= j)

\* at most the first 50 characters
First50(text) == IF Len(text) <= 50 THEN text ELSE SubSeq(text, 1, 50)

HasNoName(u) == u \notin DOMAIN users \/ users[u] \in {NULL, <<>>}

\* C10: for a user without a child name the start command leaves the session
\* waiting for the name; the text sent there is stored as the child name,
\* trimmed and cut to 50 characters (" Alice " as "Alice"), and the session
\* waits for the timezone choice; a preset label sent there stores the
\* identifier of that label (Moscow for the Moscow preset) and leaves the
\* session without a state and with empty data.
C10_Onboarding ==
    [][ \A u \in Users :
          /\ (Took("start_handler", u) /\ HasNoName(u))
             => /\ fsm_state'[u] = "waiting_baby_name"
                /\ UNCHANGED user_timezones
          /\ Took("handle_baby_name", u)
             => /\ fsm_state[u] = "waiting_baby_name"
                /\ users'[u] = First50(Trimmed(last'.text))
                /\ last'.text = NameAlice => users'[u] = <<"A", "l", "i", "c", "e">>
                /\ fsm_state'[u] = "waiting_timezone_choice"
                /\ UNCHANGED user_timezones
          /\ (Took("handle_timezone_choice", u)
                /\ last'.text \in {BTN_TZ_MOSCOW, BTN_TZ_YEKATERINBURG})
             => /\ fsm_state[u] = "waiting_timezone_choice"
                /\ user_timezones'[u] =
                     (IF last'.text = BTN_TZ_MOSCOW THEN TZ_MOSCOW ELSE TZ_YEKATERINBURG)
                /\ fsm_state'[u] = None
                /\ fsm_data'[u] = EmptyDict
                /\ UNCHANGED users ]_vars

\* a user who had stopped a feeding before the start command has been through
\* the sequence: the name is Alice, the timezone is Moscow, the session has no
\* state and its data, which held the id of the row, are empty
C10_Witness ==
    /\ last.handler = "handle_timezone_choice"
    /\ last.text = BTN_TZ_MOSCOW
    /\ users[last.user] = <<"A", "l", "i", "c", "e">>
    /\ user_timezones[last.user] = TZ_MOSCOW
    /\ fsm_state[last.user] = None
    /\ fsm_data[last.user] = EmptyDict
    /\ \E i \in 1..Len(baby_logs) : baby_logs[i].user_id = last.user
    /\ last.user \notin DOMAIN active_timers

\* at most the first n characters
FirstN(text, n) == IF Len(text) <= n THEN text ELSE SubSeq(text, 1, n)

\* the step stores a note in a row of user u
NoteStored(u) == Took("save_description", u) /\ last'.answer = "note_saved"

\* the note that the step stores
NewNote(u) == baby_logs'[fsm_data[u].last_task_id].description

\* C11 (as stated): the stored child name is the input cut to 50 characters
\* and the stored note is the input cut to 500 characters, so an input under
\* the limit is stored as it is.
C11_StoredIsInputTruncated ==
    [][ \A u \in Users :
          /\ Took("handle_baby_name", u) => users'[u] = FirstN(last'.text, 50)
          /\ NoteStored(u) => NewNote(u) = FirstN(last'.text, 500) ]_vars

\* C11 (amended): the stored child name is the input without the whitespace
\* around it, cut to 50 characters, and the stored note is the input without
\* the whitespace around it, cut to 500 characters; such an input under the
\* limit is stored as it is, and cutting a stored value again changes nothing.
C11_StoredIsTrimmedInputTruncated ==
    [][ \A u \in Users :
          /\ Took("handle_baby_name", u)
             => /\ users'[u] = FirstN(Trimmed(last'.text), 50)
                /\ Len(Trimmed(last'.text)) <= 50 => users'[u] = Trimmed(last'.text)
                /\ FirstN(users'[u], 50) = users'[u]
          /\ NoteStored(u)
             => /\ NewNote(u) = FirstN(Trimmed(last'.text), 500)
                /\ Len(Trimmed(last'.text)) <= 500 => NewNote(u) = Trimmed(last'.text)
                /\ FirstN(NewNote(u), 500) = NewNote(u) ]_vars

\* a note of 502 characters with a space before it was stored as its first
\* 500 characters after the space
C11_Witness ==
    /\ last.handler = "save_description"
    /\ last.answer = "note_saved"
    /\ Len(last.text) = 503
    /\ Head(last.text) = " "
    /\ Len(baby_logs[1].description) = 500
    /\ baby_logs[1].description = SubSeq(last.text, 2, 501)

\* C12: the timezone stored for a user is always one of the enumerated
\* identifiers; in waiting_custom_timezone a text that, read without the
\* whitespace around it, is not an enumerated identifier is answered with
\* InvalidTimezone, stores nothing and leaves the state as it is, and a text
\* that is an enumerated identifier is stored and ends the dialogue.
C12_StoredTimezoneIsEnumerated ==
    /\ [](\A u \in DOMAIN user_timezones : user_timezones[u] \in DOMAIN TIMEZONES)
    /\ [][ \A u \in Users :
             Took("handle_custom_timezone", u)
             => /\ fsm_state[u] = "waiting_custom_timezone"
                /\ IF Trimmed(last'.text) \in DOMAIN TIMEZONES
                   THEN /\ user_timezones' = Put(user_timezones, u, Trimmed(last'.text))
                        /\ fsm_state'[u] = None
                        /\ fsm_data'[u] = EmptyDict
                        /\ last'.answer = "timezone_set"
                   ELSE /\ user_timezones' = user_timezones
                        /\ fsm_state'[u] = "waiting_custom_timezone"
                        /\ fsm_data' = fsm_data
                        /\ last'.answer = "InvalidTimezone" ]_vars

\* a user whose text Mars was refused has no timezone and is still asked for
\* one, while the other user has the timezone they typed
C12_Witness ==
    \E u, v \in Users :
        /\ last.handler = "handle_custom_timezone"
        /\ last.user = u
        /\ last.text = <<"M", "a", "r", "s">>
        /\ last.answer = "InvalidTimezone"
        /\ fsm_state[u] = "waiting_custom_timezone"
        /\ u \notin DOMAIN user_timezones
        /\ v # u
        /\ v \in DOMAIN user_timezones
        /\ user_timezones[v] = TZ_BANGKOK

\* the value of a column of a row, <<>> for NULL
Column(row, k) == IF k \in DOMAIN row THEN << row[k] >> ELSE << >>

\* C13: a row of the log is never deleted and its user, category, duration,
\* volume, date and start time never change; a note is only ever written to
\* a row that has none, by the text that the owner of the row sends when
\* asked for the note, and no step changes the note of any other row.
C13_RowsAreKept ==
    [][ /\ Len(baby_logs') >= Len(baby_logs)
        /\ \A i \in 1..Len(baby_logs) :
             /\ \A k \in {"user_id", "category", "duration", "volume", "date", "time_start"} :
                   Column(baby_logs'[i], k) = Column(baby_logs[i], k)
             /\ Column(baby_logs'[i], "description") # Column(baby_logs[i], "description")
                => /\ NoteStored(baby_logs[i].user_id)
                   /\ fsm_data[baby_logs[i].user_id].last_task_id = i
        /\ \A u \in Users :
             NoteStored(u)
             => /\ fsm_state[u] = "waiting_description_text"
                /\ fsm_data[u].last_task_id \in 1..Len(baby_logs)
                /\ baby_logs[fsm_data[u].last_task_id].user_id = u
                /\ "description" \notin DOMAIN baby_logs[fsm_data[u].last_task_id] ]_vars

\* user 2 has written a note to the row of a formula feeding of 150 ml, next
\* to the four earlier rows of the two users, which have no note
C13_Witness ==
    /\ last.handler = "save_description"
    /\ last.user = 2
    /\ last.answer = "note_saved"
    /\ Len(baby_logs) = 5
    /\ SubSeq(baby_logs, 1, 4) = EarlierRows
    /\ baby_logs[5].user_id = 2
    /\ baby_logs[5].category = FORMULA
    /\ Column(baby_logs[5], "volume") = << 150 >>
    /\ Column(baby_logs[5], "description") = << NOTE_OK >>

\* the rows of user u, in the order of the table
OwnRows(logs, u) == SelectSeq(logs, LAMBDA row : row.user_id = u)

\* the reminder tasks of user u, by their index
OwnTasks(ts, u) == { << i, ts[i] >> : i \in {j \in 1..Len(ts) : ts[j].user = u} }

\* C14: a step taken for user a (a message of any kind or the cancel button)
\* changes nothing of another user b: not b's timer, session state, session
\* data, reminder tasks, timezone, child name or log rows.
C14_UsersAreIndependent ==
    [][ \A a, b \in Users :
          (a # b /\ last'.user = a)
          => /\ Column(active_timers', b) = Column(active_timers, b)
             /\ fsm_state'[b] = fsm_state[b]
             /\ fsm_data'[b] = fsm_data[b]
             /\ Column(reminder_tasks', b) = Column(reminder_tasks, b)
             /\ OwnTasks(tasks', b) = OwnTasks(tasks, b)
             /\ Column(user_timezones', b) = Column(user_timezones, b)
             /\ Column(users', b) = Column(users, b)
             /\ OwnRows(baby_logs', b) = OwnRows(baby_logs, b) ]_vars

\* user 2 has stopped a formula feeding while user 1, registered with a name
\* and a timezone, has a new row, is asked whether to write a note and has a
\* reminder pending
C14_Witness ==
    /\ last.handler = "stop_activity"
    /\ last.user = 2
    /\ fsm_state[2] = "waiting_volume"
    /\ fsm_state[1] = "waiting_description_choice"
    /\ fsm_data[1] = [last_task_id |-> 5]
    /\ Len(OwnRows(baby_logs, 1)) = 3
    /\ PendingOf(1) # {}
    /\ PendingOf(2) = {}
    /\ Column(users, 1) = << NOTE_OK >>
    /\ Column(user_timezones, 1) = << TZ_MOSCOW >>

\* the values a formula stop leaves in the data for the row to be written
StoppedValues(data) ==
    [k \in {"last_category", "last_elapsed", "last_start", "last_date"} \cap DOMAIN data
       |-> data[k]]

\* C15: while a user is asked for the volume of a stopped formula feeding, a
\* step either writes the row of that stop from the bagged category, elapsed
\* seconds, start time and date, or leaves the user asked for the volume with
\* these four values unchanged; so no stopped timer is lost.
C15_NoStoppedTimerIsLost ==
    [][ \A u \in Users :
          fsm_state[u] = "waiting_volume"
          => \/ /\ Took("handle_volume", u)
                /\ \E v \in 1..MAX_VOLUME : VolumeAccepted(u, v)
                /\ NewRow.category = fsm_data[u].last_category
                /\ NewRow.duration = fsm_data[u].last_elapsed
                /\ NewRow.time_start = fsm_data[u].last_start
                /\ NewRow.date = fsm_data[u].last_date
             \/ /\ fsm_state'[u] = "waiting_volume"
                /\ StoppedValues(fsm_data'[u]) = StoppedValues(fsm_data[u])
                /\ baby_logs' = baby_logs ]_vars

\* the step handles a message of user u
MessageStep(u) ==
    /\ last'.user = u
    /\ last'.handler = Route(fsm_state[u], last'.text)

\* the states of C16
PromptingStates == {"waiting_volume", "waiting_description_choice", "waiting_reports_menu"}

\* the inputs a state asks for: a volume of 1..500, yes or no, a button of
\* the reports menu
OwnVocabulary(st, text) ==
    CASE st = "waiting_volume" ->
           LET v == ParseInt(Trimmed(text)) IN v # Nothing /\ 1 <= v[1] /\ v[1] <= 500
      [] st = "waiting_description_choice" -> Trimmed(text) \in {BTN_YES, BTN_NO}
      [] st = "waiting_reports_menu" ->
           text \in {BTN_TODAY, BTN_BY_DATE, BTN_BY_CATEGORY, BTN_EXPORT, BTN_BACK}
      [] OTHER -> FALSE

\* the step leaves the state of u, the timers and the log as they are
AnsweredInPlace(u) ==
    /\ fsm_state'[u] = fsm_state[u]
    /\ active_timers' = active_timers
    /\ baby_logs' = baby_logs

C17_StartTimeIsTimeOfStart ==
    [][ \A u \in Users :
          (Took("stop_activity", u) /\ u \in DOMAIN active_timers)
          => LET started == LocalHHMM(get_user_tz(u), active_timers[u].start)
             IN  IF active_timers[u].category = FORMULA
                 THEN fsm_data'[u].last_start = started
                 ELSE NewRow.time_start = started ]_vars

\* the id that the data of user u name for the note is the id of the newest
\* row of u
NoteGoesToNewestRow(u) ==
    "last_task_id" \in DOMAIN fsm_data[u]
    => /\ fsm_data[u].last_task_id \in 1..Len(baby_logs)
       /\ baby_logs[fsm_data[u].last_task_id].user_id = u
       /\ \A j \in 1..Len(baby_logs) :
             baby_logs[j].user_id = u => j <= fsm_data[u].last_task_id

\* C18: with handlers of a user suspended in message.answer while later
\* messages of the same user are handled, the state, data, timer and rows of
\* the user are always a combination that handlers run one at a time reach:
\* as in every such run, the row id in the data is that of the user's newest
\* row.
C18_OnlySerialCombinations ==
    \A u \in Users : NoteGoesToNewestRow(u)

\* the step sends the notification of reminder task i
NotificationGoesOut(i) ==
    /\ i \in DOMAIN tasks
    /\ last'.handler = "schedule_reminder"
    /\ last'.answer = "requested"
    /\ tasks[i].pc = "sending"
    /\ tasks'[i].out /\ ~tasks[i].out

\* the category of the activity that user u stopped last: Smes while the
\* volume of a stopped Smes is asked for, else that of the newest row of u
MostRecentlyStopped(u) ==
    IF fsm_state[u] = "waiting_volume" THEN FORMULA
    ELSE LET rows == OwnRows(baby_logs, u) IN rows[Len(rows)].category

\* C19 (as stated): when the notification of a reminder goes out, its
\* category is the category of the activity that the user stopped last.
C19_ReminderIsForLastStopped ==
    [][ \A i \in DOMAIN tasks :
          NotificationGoesOut(i)
          => tasks[i].category = MostRecentlyStopped(tasks[i].user) ]_vars

\* C19 (amended): a reminder is created only by a step that writes a row of
\* the user, with the category of that row, the activity stopped last at that
\* moment; when the notification of a reminder goes out, the reminder is the
\* newest one created for the user and the one in the registry, so its
\* category is that of the last stop that planned a reminder.
C19_ReminderIsForLastStopThatPlannedOne ==
    [][ /\ Len(tasks') > Len(tasks)
           => /\ Len(tasks') = Len(tasks) + 1
              /\ AppendsOneRow
              /\ NewRow.user_id = tasks'[Len(tasks')].user
              /\ NewRow.category = tasks'[Len(tasks')].category
              /\ last'.handler \in {"stop_activity", "handle_volume"}
        /\ \A i \in DOMAIN tasks :
             NotificationGoesOut(i)
             => /\ reminder_tasks[tasks[i].user] = i
                /\ \A j \in DOMAIN tasks : tasks[j].user = tasks[i].user => j <= i ]_vars

\* the notification of a reminder of breast feeding has gone out after the
\* user stopped a formula feeding and entered its volume
C19_Witness ==
    /\ last.handler = "schedule_reminder"
    /\ last.answer = "requested"
    /\ \E i \in DOMAIN tasks :
          /\ reminder_tasks[last.user] = i
          /\ tasks[i].out
          /\ tasks[i].pc = "sending"
          /\ tasks[i].category = GV
    /\ baby_logs[Len(baby_logs)].category = FORMULA
    /\ baby_logs[Len(baby_logs)].user_id = last.user

\* C20: for a user without a state the start command leaves the session
\* waiting for the child name exactly when the user has no child name stored
\* (no row, NULL or an empty name), so never again once a name is stored, and
\* waiting for the timezone choice exactly when a name is stored and no
\* timezone is.
C20_StartAsksNameOnlyWithoutName ==
    [][ \A u \in Users :
          (Took("start_handler", u) /\ fsm_state[u] = None)
          => /\ fsm_state'[u] = "waiting_baby_name" <=> HasNoName(u)
             /\ fsm_state'[u] = "waiting_timezone_choice"
                <=> (~HasNoName(u) /\ u \notin DOMAIN user_timezones) ]_vars

\* C21: the cancel button of the calendar or of the category picker leaves
\* the user, whatever the state and the data were, without a state and with
\* empty data, and changes no timer, no row, no reminder task and no entry
\* of the reminder registry.
C21_CancelClearsOnlyTheSession ==
    [][ \A u \in Users :
          (Took("cancel_calendar", u) \/ Took("cancel_category", u))
          => /\ fsm_state'[u] = None
             /\ fsm_data'[u] = EmptyDict
             /\ active_timers' = active_timers
             /\ baby_logs' = baby_logs
             /\ tasks' = tasks
             /\ reminder_tasks' = reminder_tasks ]_vars

\* the category picker was cancelled by a user who has a row in the log and
\* a timer running: the session has no state and no data, the timer and the
\* row are there
C21_Witness ==
    /\ last.handler = "cancel_category"
    /\ fsm_state[last.user] = None
    /\ fsm_data[last.user] = EmptyDict
    /\ last.user \in DOMAIN active_timers
    /\ Len(baby_logs) = 1
    /\ baby_logs[1].user_id = last.user

\* the step leaves the timers, the log and the reminders as they are
TimerLogAndRemindersKept ==
    /\ active_timers' = active_timers
    /\ baby_logs' = baby_logs
    /\ tasks' = tasks
    /\ reminder_tasks' = reminder_tasks

\* C22: for a user without a state and with a running timer, the reports
\* button is handled by show_reports_menu and leaves the session waiting in
\* the reports menu, the statistics button is handled by show_statistics,
\* and a text that is no button is answered by the fallback with the notice
\* of the active timer, both leaving the session without a state; none of
\* the three changes the timer, the log or the reminders.
C22_TimerRunsOnUnderReports ==
    [][ \A u \in Users :
          (MessageStep(u) /\ fsm_state[u] = None /\ u \in DOMAIN active_timers)
          => /\ last'.text = BTN_REPORT
                => /\ Took("show_reports_menu", u)
                   /\ fsm_state'[u] = "waiting_reports_menu"
                   /\ TimerLogAndRemindersKept
             /\ last'.text = BTN_STATS
                => /\ Took("show_statistics", u)
                   /\ fsm_state'[u] = None
                   /\ TimerLogAndRemindersKept
             /\ last'.text \notin {CMD_START, BTN_GV, BTN_SLEEP, BTN_FORMULA, BTN_STOP,
                                  BTN_REPORT, BTN_STATS}
                => /\ Took("fallback_handler", u)
                   /\ last'.answer = "timer_active"
                   /\ fsm_state'[u] = None
                   /\ TimerLogAndRemindersKept ]_vars

\* the reports menu is shown to a user whose timer runs and whose reminder
\* is pending
C22_Witness ==
    /\ last.handler = "show_reports_menu"
    /\ fsm_state[last.user] = "waiting_reports_menu"
    /\ last.user \in DOMAIN active_timers
    /\ PendingOf(last.user) # {}
    /\ Len(baby_logs) = Len(EarlierRows) + 1

\* the number of events that lead from a state to no state: a name is
\* followed by the timezone question and a volume by the note question
IdleDistance(st) ==
    CASE st = None -> 0
      [] st \in {"waiting_baby_name", "waiting_volume"} -> 2
      [] OTHER -> 1

\* C23: from every state of BabyStates, with whatever data and timer the
\* user has there, the user gets back to no state in finitely many events:
\* in every reachable situation with a state, one of the events that lead out
\* of it can be sent and leaves the user strictly nearer to no state.
C23_IdleIsReachable ==
    fsm_state[1] # None =>
        ENABLED (IdleExit /\ IdleDistance(fsm_state'[1]) < IdleDistance(fsm_state[1]))

\* the user, asked for a timezone identifier while a timer runs and a row is
\* in the log, typed Asia/Bangkok and has no state
C23_Witness ==
    /\ last.handler = "handle_custom_timezone"
    /\ last.answer = "timezone_set"
    /\ fsm_state[1] = None
    /\ 1 \in DOMAIN active_timers
    /\ Len(baby_logs) = 1

\* the step is the failure of the send of reminder task i
SendFails(i) ==
    /\ i \in DOMAIN tasks
    /\ last'.handler = "schedule_reminder"
    /\ last'.answer = "send_failed"
    /\ tasks[i].pc = "sending"
    /\ tasks'[i].pc # "sending"

\* C24: the step in which the send of a reminder fails ends that task and
\* changes nothing else: no state, data, timer, row or registry entry and no
\* other task.  A task sends at most once: it enters the send from the sleep
\* only, never sleeps again, and a failed task stays as it is.  A stop that
\* finds an interval above the floor arms a new sleeping reminder whatever
\* became of the earlier ones, and a sleeping reminder that is due can wake.
C24_FailedSendIsSwallowed ==
    [][ /\ \A i \in DOMAIN tasks :
             /\ SendFails(i)
                => /\ tasks' = [tasks EXCEPT ![i].pc = "failed"]
                   /\ UNCHANGED << fsm_state, fsm_data, active_timers, baby_logs,
                                   reminder_tasks >>
             /\ tasks[i].pc = "failed" => tasks'[i] = tasks[i]
             /\ tasks[i].pc # "sleeping" => tasks'[i].pc # "sleeping"
             /\ (tasks'[i].pc = "sending" /\ tasks[i].pc # "sending")
                => tasks[i].pc = "sleeping"
             /\ (tasks[i].pc = "sleeping" /\ now >= tasks[i].due)
                => ENABLED reminder_wakes(i)
        /\ \A u \in Users :
             ( /\ Took("stop_activity", u)
               /\ AppendsOneRow
               /\ should_remind(get_average_interval(baby_logs', u, NewRow.category)) )
             => /\ Len(tasks') = Len(tasks) + 1
                /\ tasks'[Len(tasks')].user = u
                /\ tasks'[Len(tasks')].pc = "sleeping"
                /\ reminder_tasks'[u] = Len(tasks') ]_vars

\* the send of a reminder of user 1 failed; the reminder armed by the next
\* stop of user 1 and a reminder of user 2 armed after the failed one have
\* sent their notifications
C24_Witness ==
    \E i, j, k \in DOMAIN tasks :
        /\ i < j /\ i < k
        /\ tasks[i].user = 1 /\ tasks[i].pc = "failed"
        /\ tasks[j].user = 1 /\ tasks[j].pc = "done"
        /\ tasks[k].user = 2 /\ tasks[k].pc = "done"
        /\ fsm_state[1] = "waiting_description_choice"

\* C25: a text sent in waiting_description_text always leaves the user
\* without state and data.  When the data hold no last_task_id the handler
\* answers with the error and no row changes; when they hold one, the text,
\* trimmed and cut to 500 characters, becomes the description of the row with
\* that id, and nothing else of the table changes.
C25_NoteGoesToBaggedRowOrNowhere ==
    [][ \A u \in Users :
          ( Took("save_description", u) /\ fsm_state[u] = "waiting_description_text" )
          => /\ fsm_state'[u] = None
             /\ fsm_data'[u] = EmptyDict
             /\ IF "last_task_id" \notin DOMAIN fsm_data[u]
                THEN /\ last'.answer = "MissingBagContext"
                     /\ baby_logs' = baby_logs
                ELSE LET task_id == fsm_data[u].last_task_id
                     IN  /\ last'.answer = "note_saved"
                         /\ task_id \in 1..Len(baby_logs)
                         /\ baby_logs' =
                               [baby_logs EXCEPT ![task_id] =
                                   Put(@, "description",
                                       FirstN(Trimmed(last'.text), NOTE_LIMIT))] ]_vars

\* the user was asked for the note of a second feeding after "no" to the
\* first one emptied the data that the suspended stop had written; the text
\* they sent was answered with the error, and both rows are without a note
C25_Witness ==
    /\ last.handler = "save_description"
    /\ last.answer = "MissingBagContext"
    /\ fsm_state[last.user] = None
    /\ fsm_data[last.user] = EmptyDict
    /\ Len(baby_logs) = 2
    /\ \A i \in 1..Len(baby_logs) : "description" \notin DOMAIN baby_logs[i]

\* the data of user u fit the state of u
BagMatchesState(u) ==
    /\ fsm_state[u] = None => fsm_data[u] = EmptyDict
    /\ fsm_state[u] = "waiting_volume"
       => /\ {"last_category", "last_elapsed", "last_start", "last_date"}
                \subseteq DOMAIN fsm_data[u]
          /\ fsm_data[u].last_category = FORMULA
          /\ fsm_data[u].last_elapsed \in Nat
          /\ fsm_data[u].last_start \in 0..1439
          /\ fsm_data[u].last_date \in 0..Today(now)
    /\ fsm_state[u] \in {"waiting_description_choice", "waiting_description_text"}
       => /\ "last_task_id" \in DOMAIN fsm_data[u]
          /\ NoteGoesToNewestRow(u)

\* C26: with the handlers of a user run one at a time, the data of every user
\* always fit the state: none without a state; the category Smes with the
\* elapsed seconds, the start time and the date of a stop while the volume is
\* asked for; the id of the newest row of that user while the note is offered
\* or asked for.
C26_BagMatchesState ==
    \A u \in Users : BagMatchesState(u)

\* user 1 is asked for the text of the note of the row they just wrote, the
\* newest of their three rows, while user 2 is asked for the volume of a
\* stopped formula feeding
C26_Witness ==
    /\ fsm_state[1] = "waiting_description_text"
    /\ fsm_data[1].last_task_id = Len(baby_logs)
    /\ Len(OwnRows(baby_logs, 1)) = 3
    /\ fsm_state[2] = "waiting_volume"
    /\ fsm_data[2].last_category = FORMULA

\* C27: with the handlers of a user run one at a time, a row of the log has a
\* volume exactly when its category is Smes, and a volume is a whole number
\* from 1 to 500.
C27_VolumeOnlyOfFormula ==
    \A i \in 1..Len(baby_logs) :
        /\ "volume" \in DOMAIN baby_logs[i] <=> baby_logs[i].category = FORMULA
        /\ "volume" \in DOMAIN baby_logs[i] => baby_logs[i].volume \in 1..MAX_VOLUME

\* the log holds a formula feeding with its volume and, after it, a breast
\* feeding without one
C27_Witness ==
    /\ Len(baby_logs) >= 2
    /\ baby_logs[1].category = FORMULA
    /\ baby_logs[1].volume = 150
    /\ baby_logs[2].category = GV
    /\ "volume" \notin DOMAIN baby_logs[2]
    /\ last.handler = "stop_activity"

\* the step takes the timer of user u out of active_timers
TimerRemoved(u) == u \in DOMAIN active_timers /\ u \notin DOMAIN active_timers'

\* C28: with handlers of a user suspended in their awaits while later
\* messages of the user are handled, the test of active_timers and its change
\* are one step.  A category button creates the timer when there is none and
\* is answered AlreadyRunning, changing nothing, when there is one; a timer in
\* the registry is never replaced.  A stop removes the timer that is there,
\* in the step that writes its row or keeps its values for the volume, and
\* is answered NoActiveTimer, changing nothing, when there is none.  A row is
\* written only by the step that removes the timer of its user or by the
\* volume of a stopped Smes, so one timer gives at most one row.
C28_CheckAndChangeAreOneStep ==
    [][ /\ \A u \in Users :
             /\ Took("start_activity", u)
                => IF u \in DOMAIN active_timers
                   THEN /\ last'.answer = "AlreadyRunning"
                        /\ UNCHANGED << active_timers, baby_logs, fsm_state, fsm_data >>
                   ELSE /\ last'.answer = "started"
                        /\ u \in DOMAIN active_timers'
                        /\ active_timers'[u].start = now
             /\ (u \in DOMAIN active_timers /\ u \in DOMAIN active_timers')
                => active_timers'[u] = active_timers[u]
             /\ ( Took("stop_activity", u)
                  /\ last'.answer \in {"answering", "ask_volume", "NoActiveTimer"} )
                => IF u \in DOMAIN active_timers
                   THEN TimerRemoved(u)
                   ELSE /\ last'.answer = "NoActiveTimer"
                        /\ UNCHANGED << active_timers, baby_logs, fsm_state, fsm_data >>
             /\ TimerRemoved(u)
                => /\ Took("stop_activity", u)
                   /\ IF active_timers[u].category = FORMULA
                      THEN /\ baby_logs' = baby_logs
                           /\ fsm_data'[u].last_category = FORMULA
                      ELSE /\ AppendsOneRow
                           /\ NewRow.user_id = u
                           /\ NewRow.category = active_timers[u].category
        /\ Len(baby_logs') # Len(baby_logs)
           => /\ AppendsOneRow
              /\ \/ TimerRemoved(NewRow.user_id)
                 \/ Took("handle_volume", NewRow.user_id) ]_vars

\* while the stop_activity that wrote the row of the only timer is still
\* suspended in its first answer, a second stop was answered NoActiveTimer
\* and the log has the one row
C28_Witness ==
    /\ last.handler = "stop_activity"
    /\ last.answer = "NoActiveTimer"
    /\ last.user \notin DOMAIN active_timers
    /\ Len(baby_logs) = 1
    /\ Len(tasks) = 1
    /\ tasks[1].user = last.user
    /\ tasks[1].pc = "answers_finished"

=============================================================================
